---- MODULE Spec2Model ----
(***************************************************************************)
(* Model of the plagiarism-detection pipeline of                           *)
(* backend/app/services/plagiarism_detection_service.py                    *)
(* (PlagiarismDetectionService).                                           *)
(*                                                                         *)
(* Strings are sequences of one-character strings, so that slicing         *)
(* (s[:50]), str.split, str.strip and re.split are computed as Python      *)
(* computes them.  Real numbers that the code keeps as floats are exact    *)
(* rationals <<numerator, denominator>> in lowest terms; the originality   *)
(* score, which the code rounds to two decimals, is an integer number of   *)
(* hundredths.                                                             *)
(***************************************************************************)
EXTENDS Integers, Sequences, FiniteSets, TLC

\* ------------------------------------------------------------------------
\* Integers and rationals
\* ------------------------------------------------------------------------
Max(a, b) == IF a >= b THEN a ELSE b

Min(a, b) == IF a <= b THEN a ELSE b

Abs(a) == IF a < 0 THEN -a ELSE a

\* The element of a set of one element: The({F(x) : x \in {e}}) is F(e) with
\* e computed once, as an assignment x = e does.
The(S) == CHOOSE x \in S : TRUE

RECURSIVE Gcd(_, _)
Gcd(a, b) == IF b = 0 THEN a ELSE Gcd(b, a % b)

\* The real number n/d (d > 0), in lowest terms.
Rat(n, d) ==
    LET g == Gcd(Abs(n), d)
    IN  IF g = 0 THEN <<0, 1>> ELSE <<n \div g, d \div g>>

\* p >= q, compared over the least common denominator.
RatGeq(p, q) ==
    LET g == Gcd(p[2], q[2])
    IN  p[1] * (q[2] \div g) >= q[1] * (p[2] \div g)

RatLess(p, q) == ~RatGeq(p, q)

RatAdd(p, q) ==
    LET g == Gcd(p[2], q[2])
    IN  Rat(p[1] * (q[2] \div g) + q[1] * (p[2] \div g),
            p[2] * (q[2] \div g))

RatDivInt(p, k) == Rat(p[1], p[2] * k)

RatMax(p, q) == IF RatGeq(p, q) THEN p ELSE q

\* n/d rounded to the nearest integer, ties to the even one (Python's round).
RoundHalfEven(n, d) ==
    LET q == n \div d
        r == n % d
    IN  IF 2 * r < d THEN q
        ELSE IF 2 * r > d THEN q + 1
        ELSE IF q % 2 = 0 THEN q ELSE q + 1

RatMul(p, q) == Rat(p[1] * q[1], p[2] * q[2])

\* p / q for q > 0
RatDiv(p, q) == Rat(p[1] * q[2], p[2] * q[1])

RatSub(p, q) == RatAdd(p, <<-q[1], q[2]>>)

RatMin(p, q) == IF RatGeq(q, p) THEN p ELSE q

\* ------------------------------------------------------------------------
\* Binary floating point, round to nearest, ties to even.  numpy computes
\* with a significand of 53 bits; the rounding rule is kept and the
\* significand is SignificandBits wide.
\* ------------------------------------------------------------------------
SignificandBits == 8

\* The exponent e with 2^(P-1) <= (n/d) / 2^e < 2^P, for n, d > 0.
RECURSIVE FloatExponent(_, _)
FloatExponent(n, d) ==
    IF n \div 2^SignificandBits >= d
    THEN (IF n % 2 = 0 THEN FloatExponent(n \div 2, d)
          ELSE FloatExponent(n, 2 * d)) + 1
    ELSE IF n \div 2^(SignificandBits - 1) < d
    THEN (IF d % 2 = 0 THEN FloatExponent(n, d \div 2)
          ELSE FloatExponent(2 * n, d)) - 1
    ELSE 0

\* The float nearest to the rational x.
Float(x) ==
    IF x[1] = 0 THEN <<0, 1>>
    ELSE LET n == Abs(x[1])
             d == x[2]
             e == FloatExponent(n, d)
             g == IF e >= 0 THEN Gcd(n, 2^e) ELSE Gcd(2^(-e), d)
             m == IF e >= 0 THEN RoundHalfEven(n \div g, d * (2^e \div g))
                  ELSE RoundHalfEven(n * (2^(-e) \div g), d \div g)
             sign == IF x[1] < 0 THEN -1 ELSE 1
         IN  IF e >= 0 THEN Rat(sign * m * 2^e, 1) ELSE Rat(sign * m, 2^(-e))

FloatAdd(x, y) == Float(RatAdd(x, y))

FloatMul(x, y) == Float(RatMul(x, y))

FloatDiv(x, y) == Float(RatDiv(x, y))

\* The exponent e with 4^(P-1) <= (n/d) / 4^e < 4^P, for n, d > 0.
RECURSIVE SqrtExponent(_, _)
SqrtExponent(n, d) ==
    IF n \div 4^SignificandBits >= d
    THEN (IF n % 4 = 0 THEN SqrtExponent(n \div 4, d)
          ELSE SqrtExponent(n, 4 * d)) + 1
    ELSE IF n \div 4^(SignificandBits - 1) < d
    THEN (IF d % 4 = 0 THEN SqrtExponent(n, d \div 4)
          ELSE SqrtExponent(4 * n, d)) - 1
    ELSE 0

\* The float nearest to the square root of the rational x >= 0.
FloatSqrt(x) ==
    IF x[1] = 0 THEN <<0, 1>>
    ELSE LET e == SqrtExponent(x[1], x[2])
             a == IF e >= 0 THEN Rat(x[1], x[2] * 4^e)
                  ELSE Rat(x[1] * 4^(-e), x[2])
             floor == CHOOSE m \in 2^(SignificandBits - 1)..(2^SignificandBits - 1) :
                         /\ m * m * a[2] <= a[1]
                         /\ a[1] < (m + 1) * (m + 1) * a[2]
             half == (4 * floor * floor + 4 * floor + 1) * a[2]
             m == IF 4 * a[1] > half THEN floor + 1
                  ELSE IF 4 * a[1] < half THEN floor
                  ELSE IF floor % 2 = 0 THEN floor ELSE floor + 1
         IN  IF e >= 0 THEN Rat(m * 2^e, 1) ELSE Rat(m, 2^(-e))

\* ------------------------------------------------------------------------
\* Python string operations
\* ------------------------------------------------------------------------
Whitespace == {" ", "\n", "\t"}

SentenceEnd == {".", "!", "?"}

\* s[:k]
Take(s, k) == SubSeq(s, 1, Min(k, Len(s)))

\* s[k:] (k counted from 0)
Drop(s, k) == SubSeq(s, k + 1, Len(s))

RECURSIVE LStrip(_)
LStrip(s) ==
    IF s # <<>> /\ Head(s) \in Whitespace THEN LStrip(Tail(s)) ELSE s

RECURSIVE RStrip(_)
RStrip(s) ==
    IF s # <<>> /\ s[Len(s)] \in Whitespace
    THEN RStrip(SubSeq(s, 1, Len(s) - 1)) ELSE s

\* str.strip()
Strip(s) == RStrip(LStrip(s))

\* The elements of a finite set of integers, in increasing order.
Sorted(S) ==
    LET rank == [x \in S |-> Cardinality({y \in S : y <= x})]
    IN  [k \in 1..Cardinality(S) |-> CHOOSE x \in S : rank[x] = k]

\* The sub-sequence of s at the positions in I.
AtPositions(s, I) == [k \in 1..Cardinality(I) |-> s[Sorted(I)[k]]]

\* The pieces of s between the separators; separator k covers the positions
\* starts[k] .. starts[k] + lens[k] - 1.
PiecesBetween(s, starts, lens) ==
    [k \in 1..(Len(starts) + 1) |->
        SubSeq(s,
               IF k = 1 THEN 1 ELSE starts[k - 1] + lens[k - 1],
               IF k = Len(starts) + 1 THEN Len(s) ELSE starts[k] - 1)]

\* s cut at every character of seps: one piece more than there are
\* separator characters, the piece between two adjacent ones being empty.
\* (Halving keeps the recursion shallow on long texts.)
RECURSIVE Cut(_, _)
Cut(s, seps) ==
    IF Len(s) = 0 THEN << <<>> >>
    ELSE IF Len(s) = 1 THEN (IF s[1] \in seps THEN << <<>>, <<>> >> ELSE <<s>>)
    ELSE LET half == Len(s) \div 2
             left == Cut(SubSeq(s, 1, half), seps)
             right == Cut(SubSeq(s, half + 1, Len(s)), seps)
         IN  SubSeq(left, 1, Len(left) - 1)
             \o << left[Len(left)] \o right[1] >>
             \o Tail(right)

NonEmpty(pieces) == SelectSeq(pieces, LAMBDA p : p # <<>>)

\* Splitting at runs of separator characters: what re.split(r'[seps]+', s)
\* returns.  A run is one separator, and the pieces before a leading run and
\* after a trailing run are empty strings.
RunSplit(s, seps) ==
    LET pieces == Cut(s, seps)
        m == Len(pieces)
    IN  IF m = 1 THEN pieces
        ELSE <<pieces[1]>> \o NonEmpty(SubSeq(pieces, 2, m - 1)) \o <<pieces[m]>>

\* str.split(): the maximal runs of non-whitespace characters.
Split(s) == NonEmpty(Cut(s, Whitespace))

\* len(s.split()): one word for every position at which a maximal run of
\* non-whitespace characters begins.
WordCount(s) ==
    Cardinality({p \in 1..Len(s) :
                    s[p] \notin Whitespace /\ (p = 1 \/ s[p - 1] \in Whitespace)})

\* re.split(r'[.!?]+', s)
ReSplit(s) == RunSplit(s, SentenceEnd)

\* s.split('\n\n'): the occurrences of the separator are taken left to right
\* and do not overlap, so in a run of newlines they start at every second
\* position and an odd last newline stays in the text.
SplitParagraphs(s) ==
    LET NewlinesBefore(p) ==
            p - 1 - (CHOOSE q \in 0..(p - 1) :
                        /\ (q = 0 \/ s[q] # "\n")
                        /\ \A r \in (q + 1)..(p - 1) : s[r] = "\n")
        starts == Sorted({p \in 1..(Len(s) - 1) :
                            /\ s[p] = "\n" /\ s[p + 1] = "\n"
                            /\ NewlinesBefore(p) % 2 = 0})
    IN  PiecesBetween(s, starts, [k \in 1..Len(starts) |-> 2])

\* sep.join(parts) with sep = ' '
RECURSIVE JoinSpace(_)
JoinSpace(parts) ==
    IF parts = <<>> THEN <<>>
    ELSE IF Len(parts) = 1 THEN parts[1]
    ELSE parts[1] \o <<" ">> \o JoinSpace(Tail(parts))

LowerChar(c) ==
    CASE c = "A" -> "a"
      [] c = "B" -> "b"
      [] c = "E" -> "e"
      [] c = "R" -> "r"
      [] c = "X" -> "x"
      [] OTHER -> c

\* str.lower()
Lower(s) == [k \in 1..Len(s) |-> LowerChar(s[k])]

\* dict.get(key, default)
Get(m, k, d) == IF k \in DOMAIN m THEN m[k] ELSE d

\* ------------------------------------------------------------------------
\* Program constants
\* ------------------------------------------------------------------------
MIN_CHUNK_SIZE == 100

NGRAM_N == 5

NGRAM_THRESHOLD == <<3, 5>>

SEMANTIC_THRESHOLD == <<3, 4>>

HIGH_SIMILARITY == <<9, 10>>

SNIPPET_LEN == 200

KEY_PREFIX_LEN == 50

POS_STRIDE == 500

MAX_CHUNKS_TO_CHECK == 10

MAX_AUTHORS == 3

\* ------------------------------------------------------------------------
\* _chunk_text
\* ------------------------------------------------------------------------
Flush(current_chunk) ==
    IF current_chunk # <<>> THEN <<JoinSpace(current_chunk)>> ELSE <<>>

\* The sentence loop of one short paragraph, with its final flush.
RECURSIVE GroupSentences(_, _, _, _)
GroupSentences(sentences, current_chunk, current_length, min_chunk_size) ==
    IF sentences = <<>> THEN Flush(current_chunk)
    ELSE LET sent == Strip(Head(sentences))
             word_count == WordCount(sent)
         IN  IF sent = <<>>
             THEN GroupSentences(Tail(sentences), current_chunk,
                                 current_length, min_chunk_size)
             ELSE IF current_length + word_count >= min_chunk_size
             THEN Flush(current_chunk)
                  \o GroupSentences(Tail(sentences), <<sent>>, word_count,
                                    min_chunk_size)
             ELSE GroupSentences(Tail(sentences), Append(current_chunk, sent),
                                 current_length + word_count, min_chunk_size)

ChunkParagraph(para, min_chunk_size) ==
    IF WordCount(para) >= min_chunk_size THEN <<para>>
    ELSE GroupSentences(ReSplit(para), <<>>, 0, min_chunk_size)

RECURSIVE ChunkParagraphs(_, _)
ChunkParagraphs(paragraphs, min_chunk_size) ==
    IF paragraphs = <<>> THEN <<>>
    ELSE ChunkParagraph(Head(paragraphs), min_chunk_size)
         \o ChunkParagraphs(Tail(paragraphs), min_chunk_size)

\* The paragraphs without the test that drops the blank ones.
ParagraphsUnfiltered(text) ==
    LET pieces == SplitParagraphs(text)
    IN  [k \in 1..Len(pieces) |-> Strip(pieces[k])]

Paragraphs(text) ==
    LET pieces == SplitParagraphs(text)
        stripped == [k \in 1..Len(pieces) |-> Strip(pieces[k])]
    IN  NonEmpty(stripped)

ChunkText(text, min_chunk_size) ==
    ChunkParagraphs(Paragraphs(text), min_chunk_size)

\* ------------------------------------------------------------------------
\* Layer 1: _fingerprint_detection.  The digests are computed and dropped;
\* no store is consulted, so the layer reports nothing.
\* ------------------------------------------------------------------------
FingerprintDetection(chunks) == <<>>

\* ------------------------------------------------------------------------
\* Layer 2: _ngram_detection
\* ------------------------------------------------------------------------
\* The n-grams taken without lower().
GetNgramsCaseSensitive(text, n) ==
    LET words == Split(text)
    IN  {JoinSpace(SubSeq(words, k, k + n - 1)) : k \in 1..(Len(words) - n + 1)}

GetNgrams(text, n) ==
    LET words == Split(Lower(text))
    IN  {JoinSpace(SubSeq(words, k, k + n - 1)) : k \in 1..(Len(words) - n + 1)}

\* The intersection measured against the first set instead of the union.
JaccardOverFirst(ngrams_i, ngrams_j) ==
    LET intersection == Cardinality(ngrams_i \cap ngrams_j)
        first == Cardinality(ngrams_i)
    IN  IF first > 0 THEN Rat(intersection, first) ELSE <<0, 1>>

Jaccard(ngrams_i, ngrams_j) ==
    LET intersection == Cardinality(ngrams_i \cap ngrams_j)
        union == Cardinality(ngrams_i \cup ngrams_j)
    IN  IF union > 0 THEN Rat(intersection, union) ELSE <<0, 1>>

InternalSource(j) == "Internal chunk " \o ToString(j)

\* The body of the pair loop for chunks i < j (indices from 0).
NgramPair(chunks, i, j, n, threshold) ==
    LET ngrams_i == GetNgrams(chunks[i + 1], n)
        ngrams_j == GetNgrams(chunks[j + 1], n)
        similarity == Jaccard(ngrams_i, ngrams_j)
    IN  IF ngrams_i = {} \/ ngrams_j = {} THEN <<>>
        ELSE IF RatGeq(similarity, threshold)
        THEN << [text |-> Take(chunks[i + 1], SNIPPET_LEN),
                 source |-> InternalSource(j),
                 similarity |-> similarity,
                 start_pos |-> i * POS_STRIDE,
                 end_pos |-> i * POS_STRIDE + Len(chunks[i + 1]),
                 type |-> "near_duplicate"] >>
        ELSE <<>>

\* The pairs (i, j), (i, j + 1), ... of the inner loop, then the outer loop
\* from i + 1 on.
RECURSIVE NgramLoop(_, _, _, _, _)
NgramLoop(chunks, i, j, n, threshold) ==
    IF i >= Len(chunks) THEN <<>>
    ELSE LET inner[k \in j..Len(chunks)] ==
                 IF k >= Len(chunks) THEN <<>>
                 ELSE NgramPair(chunks, i, k, n, threshold) \o inner[k + 1]
         IN  (IF j >= Len(chunks) THEN <<>> ELSE inner[j])
             \o NgramLoop(chunks, i + 1, i + 2, n, threshold)

NgramDetection(chunks, n, threshold) == NgramLoop(chunks, 0, 1, n, threshold)

\* ------------------------------------------------------------------------
\* _deduplicate_matches
\* ------------------------------------------------------------------------
\* The key without the source.
MatchKeyTextOnly(match) ==
    <<Take(Get(match, "text", <<>>), KEY_PREFIX_LEN), "">>

MatchKey(match) ==
    <<Take(Get(match, "text", <<>>), KEY_PREFIX_LEN), Get(match, "source", "")>>

\* A loop that deletes from the list it walks: after a duplicate is dropped
\* the element that follows it is stepped over and kept unexamined.
RECURSIVE DedupLoopSkipping(_, _)
DedupLoopSkipping(matches, seen) ==
    IF matches = <<>> THEN <<>>
    ELSE LET key == MatchKey(Head(matches))
         IN  IF key \notin seen
             THEN <<Head(matches)>>
                  \o DedupLoopSkipping(Tail(matches), seen \cup {key})
             ELSE IF Len(matches) >= 2
             THEN <<matches[2]>> \o DedupLoopSkipping(Tail(Tail(matches)), seen)
             ELSE <<>>

RECURSIVE DedupLoop(_, _)
DedupLoop(matches, seen) ==
    IF matches = <<>> THEN <<>>
    ELSE LET key == MatchKey(Head(matches))
         IN  IF key \notin seen
             THEN <<Head(matches)>> \o DedupLoop(Tail(matches), seen \cup {key})
             ELSE DedupLoop(Tail(matches), seen)

DeduplicateMatches(matches) == DedupLoop(matches, {})

\* ------------------------------------------------------------------------
\* _calculate_originality_score (result in hundredths: 10000 is 100.0)
\* ------------------------------------------------------------------------
RECURSIVE MatchedWords(_)
MatchedWords(matches) ==
    IF matches = <<>> THEN 0
    ELSE WordCount(Get(Head(matches), "text", <<>>)) + MatchedWords(Tail(matches))

\* The matched share taken for the unmatched one.
BaseScoreMatchedShare(matched_words, total_words) ==
    LET raw == Rat(100 * matched_words, total_words)
    IN  RatMax(<<0, 1>>, IF RatGeq(raw, <<100, 1>>) THEN <<100, 1>> ELSE raw)

\* base_score = 100 - (matched_words / total_words * 100), then
\* max(0, min(100, base_score)); total_words > 0.
BaseScore(matched_words, total_words) ==
    LET raw == Rat(100 * (total_words - matched_words), total_words)
    IN  RatMax(<<0, 1>>, IF RatGeq(raw, <<100, 1>>) THEN <<100, 1>> ELSE raw)

\* The tiers with their boundaries excluded.
SimilarityPenaltyExclusive(similarity) ==
    IF RatLess(<<9, 10>>, similarity) THEN 10
    ELSE IF RatLess(<<4, 5>>, similarity) THEN 5
    ELSE IF RatLess(<<7, 10>>, similarity) THEN 2
    ELSE 0

\* The penalty of one match: 10 from 0.9, 5 from 0.8, 2 from 0.7.
SimilarityPenalty(similarity) ==
    IF RatGeq(similarity, <<9, 10>>) THEN 10
    ELSE IF RatGeq(similarity, <<4, 5>>) THEN 5
    ELSE IF RatGeq(similarity, <<7, 10>>) THEN 2
    ELSE 0

RECURSIVE Penalty(_)
Penalty(matches) ==
    IF matches = <<>> THEN 0
    ELSE SimilarityPenalty(Get(Head(matches), "similarity", <<0, 1>>))
         + Penalty(Tail(matches))

\* The final max(0, ...) left out.
FinalScoreUnclamped(base_score, penalty) ==
    LET final == RatAdd(base_score, <<-penalty, 1>>)
    IN  RoundHalfEven(100 * final[1], final[2])

\* final_score = max(0, base_score - penalty); round(final_score, 2)
FinalScore(base_score, penalty) ==
    LET final == RatMax(<<0, 1>>, RatAdd(base_score, <<-penalty, 1>>))
    IN  RoundHalfEven(100 * final[1], final[2])

\* Only the empty string is told apart; a text without words is scored as
\* if it had one word.
CalculateOriginalityScoreOneWord(text, matches) ==
    IF text = <<>> THEN 0
    ELSE FinalScore(BaseScore(MatchedWords(matches), Max(WordCount(text), 1)),
                    Penalty(matches))

CalculateOriginalityScore(text, matches) ==
    IF text = <<>> THEN 0
    ELSE LET total_words == WordCount(text)
         IN  IF total_words = 0 THEN 0
             ELSE FinalScore(BaseScore(MatchedWords(matches), total_words),
                             Penalty(matches))

\* ------------------------------------------------------------------------
\* _calculate_statistics
\* ------------------------------------------------------------------------
\* Every type that occurs counted once, however many matches have it.
TypeCountsPresence(matches, type_counts) ==
    [t \in {Get(matches[k], "type", "unknown") : k \in DOMAIN matches} |-> 1]

\* type_counts[match_type] += 1 for every match, on a defaultdict(int).
RECURSIVE TypeCounts(_, _)
TypeCounts(matches, type_counts) ==
    IF matches = <<>> THEN type_counts
    ELSE LET match_type == Get(Head(matches), "type", "unknown")
             old == IF match_type \in DOMAIN type_counts
                    THEN type_counts[match_type] ELSE 0
         IN  TypeCounts(Tail(matches),
                        [t \in DOMAIN type_counts \cup {match_type} |->
                            IF t = match_type THEN old + 1 ELSE type_counts[t]])

\* max(...) over the matches, taken by halves: of equal similarities the
\* first one is the result either way.
RECURSIVE HighestSimilarity(_)
HighestSimilarity(matches) ==
    IF matches = <<>> THEN <<0, 1>>
    ELSE IF Len(matches) = 1 THEN Get(matches[1], "similarity", <<0, 1>>)
    ELSE LET half == Len(matches) \div 2
         IN  The({RatMax(first, second) :
                  first \in {HighestSimilarity(SubSeq(matches, 1, half))},
                  second \in {HighestSimilarity(
                                  SubSeq(matches, half + 1, Len(matches)))}})

\* sum(...) over the matches, taken by halves: the numbers are exact, so
\* the sum does not depend on the order of the additions.
RECURSIVE SumSimilarity(_)
SumSimilarity(matches) ==
    IF matches = <<>> THEN <<0, 1>>
    ELSE IF Len(matches) = 1
    THEN RatAdd(Get(matches[1], "similarity", <<0, 1>>), <<0, 1>>)
    ELSE LET half == Len(matches) \div 2
         IN  The({RatAdd(first, second) :
                  first \in {SumSimilarity(SubSeq(matches, 1, half))},
                  second \in {SumSimilarity(
                                  SubSeq(matches, half + 1, Len(matches)))}})

MatchPercentage(matched_words, total_words) ==
    IF total_words > 0 THEN Rat(matched_words * 100, total_words) ELSE <<0, 1>>

AverageSimilarity(matches) ==
    IF matches # <<>> THEN RatDivInt(SumSimilarity(matches), Len(matches))
    ELSE <<0, 1>>

CalculateStatistics(text, matches) ==
    LET total_words == WordCount(text)
        matched_words == MatchedWords(matches)
        sources == {Get(matches[k], "source", "") : k \in 1..Len(matches)}
    IN  [total_words |-> total_words,
         matched_words |-> matched_words,
         match_percentage |-> MatchPercentage(matched_words, total_words),
         unique_sources |-> Cardinality(sources),
         matches_by_type |-> TypeCounts(matches, <<>>),
         highest_similarity |-> HighestSimilarity(matches),
         average_similarity |-> AverageSimilarity(matches)]

\* ------------------------------------------------------------------------
\* _identify_claims.  A pattern is the sequence of its parts and a part is
\* the set of its alternatives: x? is the part {x, ""}, (?:x|y) the part
\* {x, y}, and literal text a part of one alternative.
\* ------------------------------------------------------------------------
MIN_CLAIM_WORDS == 5

MAX_CLAIMS == 10

claim_patterns ==
    <<
      \* r'research shows?'
      <<{<<"r", "e", "s", "e", "a", "r", "c", "h", " ", "s", "h", "o", "w">>},
        {<<"s">>, <<>>}>>,
      \* r'studies? (?:have )?(?:shown|demonstrated|found|revealed)'
      <<{<<"s", "t", "u", "d", "i", "e">>},
        {<<"s">>, <<>>},
        {<<" ">>},
        {<<"h", "a", "v", "e", " ">>, <<>>},
        {<<"s", "h", "o", "w", "n">>, <<"d", "e", "m", "o", "n", "s", "t",
          "r", "a", "t", "e", "d">>, <<"f", "o", "u", "n", "d">>, <<"r", "e",
          "v", "e", "a", "l", "e", "d">>}>>,
      \* r'evidence suggests?'
      <<{<<"e", "v", "i", "d", "e", "n", "c", "e", " ", "s", "u", "g", "g",
          "e", "s", "t">>},
        {<<"s">>, <<>>}>>,
      \* r'according to'
      <<{<<"a", "c", "c", "o", "r", "d", "i", "n", "g", " ", "t", "o">>}>>,
      \* r'it (?:is|has been) (?:shown|demonstrated|proven)'
      <<{<<"i", "t", " ">>},
        {<<"i", "s">>, <<"h", "a", "s", " ", "b", "e", "e", "n">>},
        {<<" ">>},
        {<<"s", "h", "o", "w", "n">>, <<"d", "e", "m", "o", "n", "s", "t",
          "r", "a", "t", "e", "d">>, <<"p", "r", "o", "v", "e", "n">>}>>,
      \* r'experiments? (?:show|demonstrate)'
      <<{<<"e", "x", "p", "e", "r", "i", "m", "e", "n", "t">>},
        {<<"s">>, <<>>},
        {<<" ">>},
        {<<"s", "h", "o", "w">>, <<"d", "e", "m", "o", "n", "s", "t", "r",
          "a", "t", "e">>}>>
    >>

\* The positions at which a match of the parts of pattern, begun at one of
\* the positions of ends, can end in s (positions count the characters
\* consumed).
RECURSIVE MatchEnds(_, _, _)
MatchEnds(pattern, s, ends) ==
    IF pattern = <<>> THEN ends
    ELSE LET hits == {x \in ends \X Head(pattern) :
                        /\ x[1] + Len(x[2]) <= Len(s)
                        /\ SubSeq(s, x[1] + 1, x[1] + Len(x[2])) = x[2]}
         IN  MatchEnds(Tail(pattern), s, {x[1] + Len(x[2]) : x \in hits})

\* re.search(pattern, s, re.IGNORECASE) is not None, for a pattern written
\* in lower case.
ReSearchIgnoreCase(pattern, s) ==
    MatchEnds(pattern, Lower(s), 0..Len(s)) # {}

MatchingPatterns(sentence) ==
    {k \in DOMAIN claim_patterns :
        ReSearchIgnoreCase(claim_patterns[k], sentence)}

\* The pattern loop without its break: one append per matching pattern.
ClaimAppendsNoBreak(sentence) ==
    [k \in 1..Cardinality(MatchingPatterns(sentence)) |-> sentence]

\* The pattern loop: the sentence is appended at the first pattern that
\* matches, and the loop is left.
ClaimAppends(sentence) ==
    IF MatchingPatterns(sentence) # {} THEN <<sentence>> ELSE <<>>

\* The sentence loop.
RECURSIVE ClaimLoop(_)
ClaimLoop(sentences) ==
    IF sentences = <<>> THEN <<>>
    ELSE LET sentence == Strip(Head(sentences))
         IN  IF WordCount(sentence) < MIN_CLAIM_WORDS
             THEN ClaimLoop(Tail(sentences))
             ELSE ClaimAppends(sentence) \o ClaimLoop(Tail(sentences))

IdentifyClaims(text) == Take(ClaimLoop(ReSplit(text)), MAX_CLAIMS)

\* ------------------------------------------------------------------------
\* Layer 3: _semantic_detection.  The embedding provider answers with
\* vectors of two integer components.
\* ------------------------------------------------------------------------
None == "<None>"

\* A candidate that is None instead of a dict.
NonePaper == [none |-> TRUE]

\* A JSON value that is either a list or null.
ListOf(items) == [is_none |-> FALSE, items |-> items]

NullList == [is_none |-> TRUE, items |-> <<>>]

IsNonePaper(paper) == "none" \in DOMAIN paper

\* np.array(response.embeddings): the components as floats
AsFloats(u) == [k \in DOMAIN u |-> Float(<<u[k], 1>>)]

\* The dot product, summed in index order.
Dot(u, v) ==
    The({FloatAdd(p, q) : p \in {FloatMul(u[1], v[1])},
                          q \in {FloatMul(u[2], v[2])}})

\* The Euclidean norm of a row.
Norm(u) == The({FloatSqrt(d) : d \in {Dot(u, u)}})

\* sklearn normalize: the row divided by its norm, a zero row left as it is.
Normalize(u) ==
    The({IF norm[1] = 0 THEN u ELSE [k \in DOMAIN u |-> FloatDiv(u[k], norm)] :
            norm \in {Norm(u)}})

\* sklearn cosine_similarity: the dot product of the normalized rows.  It
\* is not clipped.
CosineSimilarity(u, v) ==
    The({Dot(a, b) : a \in {Normalize(AsFloats(u))},
                     b \in {Normalize(AsFloats(v))}})

\* The embeddings the providers return in the specifications below, and
\* cosine_similarity of every two of them, computed once.
EmbeddingVectors == {<<3, 4>>, <<1, 0>>, <<1, 7>>, <<4, 3>>}

Similarities ==
    [u \in EmbeddingVectors, v \in EmbeddingVectors |-> CosineSimilarity(u, v)]

\* The test of check_online left out.
SemanticEnabledOffline(check_online, has_client) == has_client

\* not check_online or not self.cohere_client  ->  return []
SemanticEnabled(check_online, has_client) == check_online /\ has_client

\* paper_text = f"{title} {abstract}"; paper_text.strip() is empty exactly
\* when both parts are missing or empty.
IsBlankPaper(paper) ==
    Get(paper, "title", "") = "" /\ Get(paper, "abstract", "") = ""

\* The loop that builds paper_texts / valid_papers; paper.get raises on a
\* candidate that is None.
TextsRaise(papers) == \E k \in 1..Len(papers) : IsNonePaper(papers[k])

ValidPapers(papers) == SelectSeq(papers, LAMBDA p : ~IsBlankPaper(p))

\* [a.get('name') for a in paper.get('authors', [])][:3]
AuthorNames(paper) ==
    LET authors == Get(paper, "authors", ListOf(<<>>)).items
    IN  Take([k \in 1..Len(authors) |-> Get(authors[k], "name", None)],
             MAX_AUTHORS)

\* Iterating over authors raises TypeError when the value is null.
AuthorsRaise(paper) == Get(paper, "authors", ListOf(<<>>)).is_none

SemanticType(similarity) ==
    IF RatLess(similarity, HIGH_SIMILARITY) THEN "paraphrase"
    ELSE "high_similarity"

SemanticMatch(chunk, i, paper, similarity) ==
    [text |-> Take(chunk, SNIPPET_LEN),
     source |-> Get(paper, "title", "Unknown"),
     source_url |-> Get(paper, "url", None),
     similarity |-> similarity,
     start_pos |-> i * POS_STRIDE,
     end_pos |-> i * POS_STRIDE + Len(chunk),
     type |-> SemanticType(similarity),
     source_year |-> Get(paper, "year", None),
     source_authors |-> AuthorNames(paper)]

\* for paper, similarity in zip(valid_papers, similarities): the matches
\* appended so far and whether building a match raised (authors is None).
RECURSIVE EmitMatches(_, _, _, _, _, _)
EmitMatches(chunk, i, valid_papers, similarities, threshold, emitted) ==
    IF valid_papers = <<>> THEN [matches |-> emitted, raised |-> FALSE]
    ELSE IF ~RatGeq(Head(similarities), threshold)
    THEN EmitMatches(chunk, i, Tail(valid_papers), Tail(similarities),
                     threshold, emitted)
    ELSE IF AuthorsRaise(Head(valid_papers))
    THEN [matches |-> emitted, raised |-> TRUE]
    ELSE EmitMatches(chunk, i, Tail(valid_papers), Tail(similarities), threshold,
                     Append(emitted, SemanticMatch(chunk, i, Head(valid_papers),
                                                   Head(similarities))))

\* What one pass of the per-chunk try block does, given what the search
\* and the embedding provider answer.  search_ok / embed_ok FALSE: the call
\* raises.  stage names the place an exception came from ("" if none),
\* candidates is len(valid_papers) once the candidate texts are built, and
\* examined is zip(valid_papers, similarities) once the similarities are
\* computed.
ProcessChunk(chunk, i, chunk_embedding, search_ok, papers, embed_ok, vectors) ==
    LET valid_papers == ValidPapers(papers)
        similarities == [k \in 1..Len(valid_papers) |->
                            Similarities[chunk_embedding, vectors[k]]]
        out == EmitMatches(chunk, i, valid_papers, similarities,
                           SEMANTIC_THRESHOLD, <<>>)
        nothing == [matches |-> <<>>, stage |-> "", embed_called |-> FALSE,
                    candidates |-> 0, examined |-> <<>>]
    IN  IF ~search_ok THEN [nothing EXCEPT !.stage = "search"]
        ELSE IF papers = <<>> THEN nothing
        ELSE IF TextsRaise(papers) THEN [nothing EXCEPT !.stage = "texts"]
        ELSE IF valid_papers = <<>> THEN nothing
        ELSE IF ~embed_ok
        THEN [nothing EXCEPT !.stage = "embed", !.embed_called = TRUE,
                             !.candidates = Len(valid_papers)]
        ELSE [matches |-> out.matches,
              stage |-> IF out.raised THEN "emit" ELSE "",
              embed_called |-> TRUE,
              candidates |-> Len(valid_papers),
              examined |->
                  [k \in 1..Len(valid_papers) |->
                      [chunk |-> i, paper |-> valid_papers[k],
                       similarity |-> similarities[k]]]]

\* Without the inner handler the exception reaches the outer one.
AfterChunkErrorAbort(matches, emitted) == [matches |-> <<>>, abort |-> TRUE]

\* except Exception as e: logger.error(...) inside the chunk loop: the list
\* is left as it is and the loop goes on.
AfterChunkError(matches, emitted) == [matches |-> matches \o emitted, abort |-> FALSE]

\* Without the outer handler the exception leaves check_plagiarism.
AfterEmbedErrorRaise == [matches |-> <<>>, raised |-> TRUE]

\* except Exception as e: logger.error(...); return []  (outer handler)
AfterEmbedError == [matches |-> <<>>, raised |-> FALSE]

\* ------------------------------------------------------------------------
\* check_plagiarism: assembling the result
\* ------------------------------------------------------------------------
\* The layers appended in another order.
AllMatchesSemanticFirst(fingerprint_matches, ngram_matches, semantic_matches) ==
    semantic_matches \o fingerprint_matches \o ngram_matches

\* all_matches = []; extend(fingerprint); extend(ngram); extend(semantic)
AllMatches(fingerprint_matches, ngram_matches, semantic_matches) ==
    fingerprint_matches \o ngram_matches \o semantic_matches

BuildResult(text, language, all_matches) ==
    The({[originality_score |-> CalculateOriginalityScore(text, unique_matches),
          total_matches |-> Len(unique_matches),
          matches |-> unique_matches,
          statistics |-> CalculateStatistics(text, unique_matches),
          text_length |-> Len(text),
          word_count |-> WordCount(text),
          language |-> language] :
         unique_matches \in {DeduplicateMatches(all_matches)}})

\* ------------------------------------------------------------------------
\* JournalRecommendationService.  Numbers are exact rationals; a number that
\* is None in the data is NoneNumber.
\* ------------------------------------------------------------------------
NoneNumber == <<>>

\* _load_sample_journals: the fields the scoring and the filters read.
SampleJournals ==
    << [id |-> "nature", scopus_indexed |-> TRUE,
        web_of_science_indexed |-> TRUE, impact_factor |-> Rat(4996, 100),
        h_index |-> <<1089, 1>>, open_access |-> FALSE,
        apc_amount |-> <<0, 1>>, avg_time_to_publish_days |-> <<180, 1>>,
        acceptance_rate |-> <<7, 1>>,
        subjects |-> <<"Multidisciplinary", "Science">>,
        keywords |-> <<"research", "science", "nature", "multidisciplinary">>,
        is_predatory |-> FALSE],
       [id |-> "plos-one", scopus_indexed |-> TRUE,
        web_of_science_indexed |-> TRUE, impact_factor |-> Rat(324, 100),
        h_index |-> <<436, 1>>, open_access |-> TRUE,
        apc_amount |-> <<1825, 1>>, avg_time_to_publish_days |-> <<90, 1>>,
        acceptance_rate |-> <<50, 1>>,
        subjects |-> <<"Multidisciplinary", "Science">>,
        keywords |->
            <<"open access", "research", "science", "multidisciplinary">>,
        is_predatory |-> FALSE],
       [id |-> "ieee-access", scopus_indexed |-> TRUE,
        web_of_science_indexed |-> TRUE, impact_factor |-> Rat(347, 100),
        h_index |-> <<127, 1>>, open_access |-> TRUE,
        apc_amount |-> <<1850, 1>>, avg_time_to_publish_days |-> <<60, 1>>,
        acceptance_rate |-> <<30, 1>>,
        subjects |-> <<"Engineering", "Computer Science", "Technology">>,
        keywords |->
            <<"engineering", "computer science", "technology", "open access">>,
        is_predatory |-> FALSE],
       [id |-> "scientific-reports", scopus_indexed |-> TRUE,
        web_of_science_indexed |-> TRUE, impact_factor |-> Rat(438, 100),
        h_index |-> <<253, 1>>, open_access |-> TRUE,
        apc_amount |-> <<2190, 1>>, avg_time_to_publish_days |-> <<120, 1>>,
        acceptance_rate |-> <<60, 1>>,
        subjects |-> <<"Multidisciplinary", "Science">>,
        keywords |-> <<"research", "open access", "science">>,
        is_predatory |-> FALSE],
       [id |-> "arxiv", scopus_indexed |-> FALSE,
        web_of_science_indexed |-> FALSE, impact_factor |-> NoneNumber,
        h_index |-> NoneNumber, open_access |-> TRUE,
        apc_amount |-> <<0, 1>>, avg_time_to_publish_days |-> <<1, 1>>,
        acceptance_rate |-> <<100, 1>>,
        subjects |-> <<"Physics", "Mathematics", "Computer Science">>,
        keywords |-> <<"preprint", "research", "open access">>,
        is_predatory |-> FALSE] >>

\* str.lower() of a keyword or a subject.
LowerTerm(term) ==
    CASE term = "Multidisciplinary" -> "multidisciplinary"
      [] term = "Science" -> "science"
      [] term = "Engineering" -> "engineering"
      [] term = "Computer Science" -> "computer science"
      [] term = "Technology" -> "technology"
      [] term = "Physics" -> "physics"
      [] term = "Mathematics" -> "mathematics"
      [] term = "Research" -> "research"
      [] OTHER -> term

LowerTerms(terms) == {LowerTerm(terms[k]) : k \in DOMAIN terms}

\* _calculate_keyword_overlap: a score for every id of semantic_scores when
\* there are no keywords, for every journal of the database otherwise.
CalculateKeywordOverlap(database, paper_keywords, semantic_scores) ==
    IF paper_keywords = <<>>
    THEN [j_id \in DOMAIN semantic_scores |-> <<1, 2>>]
    ELSE LET ids == {database[k].id : k \in DOMAIN database}
             JournalOf(j_id) ==
                 database[CHOOSE k \in DOMAIN database :
                             /\ database[k].id = j_id
                             /\ \A m \in (k + 1)..Len(database) :
                                   database[m].id # j_id]
             Score(journal) ==
                 LET all_journal_terms ==
                         Get(journal, "keywords", <<>>)
                         \o Get(journal, "subjects", <<>>)
                     paper_set == LowerTerms(paper_keywords)
                     journal_set == LowerTerms(all_journal_terms)
                 IN  IF all_journal_terms = <<>> THEN <<0, 1>>
                     ELSE Rat(Cardinality(paper_set \cap journal_set),
                              Cardinality(paper_set \cup journal_set))
         IN  [j_id \in ids |-> Score(JournalOf(j_id))]

\* _apply_filters.  Comparing a number that is None raises TypeError.
ApplyFilters(journals, preferences) ==
    LET Has(key) == key \in DOMAIN preferences
        HasNone(js, field) ==
            \E k \in DOMAIN js : Get(js[k], field, <<0, 1>>) = NoneNumber
        open_access ==
            IF Get(preferences, "open_access_only", FALSE)
            THEN SelectSeq(journals,
                           LAMBDA j : Get(j, "open_access", FALSE))
            ELSE journals
        apc_raises == Has("max_apc") /\ HasNone(open_access, "apc_amount")
        max_apc ==
            IF Has("max_apc")
            THEN SelectSeq(open_access,
                           LAMBDA j :
                               \/ RatGeq(preferences.max_apc,
                                         Get(j, "apc_amount", <<0, 1>>))
                               \/ ~Get(j, "open_access", FALSE))
            ELSE open_access
        impact_raises ==
            Has("min_impact_factor") /\ HasNone(max_apc, "impact_factor")
        min_impact_factor ==
            IF Has("min_impact_factor")
            THEN SelectSeq(max_apc,
                           LAMBDA j :
                               RatGeq(Get(j, "impact_factor", <<0, 1>>),
                                      preferences.min_impact_factor))
            ELSE max_apc
        time_raises ==
            /\ Has("max_time_to_publish")
            /\ HasNone(min_impact_factor, "avg_time_to_publish_days")
        max_time_to_publish ==
            IF Has("max_time_to_publish")
            THEN SelectSeq(min_impact_factor,
                           LAMBDA j :
                               RatGeq(preferences.max_time_to_publish,
                                      Get(j, "avg_time_to_publish_days",
                                          <<365, 1>>)))
            ELSE min_impact_factor
        required ==
            IF Has("required_indexing") THEN preferences.required_indexing
            ELSE {}
        scopus ==
            IF "Scopus" \in required
            THEN SelectSeq(max_time_to_publish,
                           LAMBDA j : Get(j, "scopus_indexed", FALSE))
            ELSE max_time_to_publish
        web_of_science ==
            IF "Web of Science" \in required
            THEN SelectSeq(scopus,
                           LAMBDA j : Get(j, "web_of_science_indexed", FALSE))
            ELSE scopus
        predatory ==
            IF Get(preferences, "exclude_predatory", TRUE)
            THEN SelectSeq(web_of_science,
                           LAMBDA j : ~Get(j, "is_predatory", FALSE))
            ELSE web_of_science
    IN  IF apc_raises \/ impact_raises \/ time_raises
        THEN [raised |-> "TypeError"]
        ELSE [filtered |-> predatory]

weights ==
    [semantic |-> Rat(35, 100), keyword |-> Rat(20, 100),
     impact |-> Rat(15, 100), time |-> Rat(10, 100),
     open_access |-> Rat(10, 100), acceptance |-> Rat(10, 100)]

\* The impact factor cut at 1 without the division by 10.
NormImpactUndivided(impact_factor) == RatMin(impact_factor, <<1, 1>>)

\* min(impact_factor / 10.0, 1.0)
NormImpact(impact_factor) ==
    RatMin(RatDiv(impact_factor, <<10, 1>>), <<1, 1>>)

\* _calculate_composite_score
CalculateCompositeScore(semantic_score, keyword_score, impact_factor, time_to_publish, open_access, acceptance_rate) ==
    LET norm_semantic == semantic_score
        norm_keyword == keyword_score
        norm_impact == NormImpact(impact_factor)
        norm_time ==
            RatSub(<<1, 1>>,
                   RatMin(RatDiv(time_to_publish, <<365, 1>>), <<1, 1>>))
        norm_oa == IF open_access THEN <<1, 1>> ELSE <<1, 2>>
        norm_acceptance == RatDiv(acceptance_rate, <<100, 1>>)
    IN  RatAdd(RatAdd(RatAdd(RatAdd(RatAdd(
            RatMul(norm_semantic, weights.semantic),
            RatMul(norm_keyword, weights.keyword)),
            RatMul(norm_impact, weights.impact)),
            RatMul(norm_time, weights.time)),
            RatMul(norm_oa, weights.open_access)),
            RatMul(norm_acceptance, weights.acceptance))

\* _calculate_fit_score, for a journal whose h_index is a number.
CalculateFitScore(semantic_score, keyword_score, journal) ==
    LET fit == RatAdd(RatMul(semantic_score, <<3, 5>>),
                      RatMul(keyword_score, <<2, 5>>))
        boosted ==
            IF RatLess(<<50, 1>>, Get(journal, "h_index", <<0, 1>>))
            THEN RatMul(fit, <<11, 10>>) ELSE fit
    IN  RatMin(boosted, <<1, 1>>)

\* _estimate_acceptance_probability; round(probability, 2) is taken on the
\* exact value.
EstimateAcceptanceProbability(fit_score, journal) ==
    LET base_prob ==
            RatDiv(Get(journal, "acceptance_rate", <<50, 1>>), <<100, 1>>)
        adjustment == RatMul(RatSub(fit_score, <<1, 2>>), <<3, 10>>)
        probability ==
            RatMax(<<1, 20>>,
                   RatMin(<<19, 20>>, RatAdd(base_prob, adjustment)))
    IN  Rat(RoundHalfEven(probability[1] * 100, probability[2]), 100)

\* A number of the journal that the scoring computes with is None: the
\* division or the comparison raises TypeError.
ScoringRaises(journal) ==
    \E field \in {"impact_factor", "avg_time_to_publish_days",
                  "acceptance_rate", "h_index"} :
        Get(journal, field, <<0, 1>>) = NoneNumber

\* The body of the scoring loop of recommend_journals.
ScoreJournal(journal, semantic_scores, keyword_scores) ==
    LET semantic_score == Get(semantic_scores, journal.id, <<0, 1>>)
        keyword_score == Get(keyword_scores, journal.id, <<0, 1>>)
        fit_score == CalculateFitScore(semantic_score, keyword_score, journal)
    IN  [semantic_score |-> semantic_score,
         keyword_score |-> keyword_score,
         composite_score |->
             CalculateCompositeScore(
                 semantic_score, keyword_score,
                 Get(journal, "impact_factor", <<0, 1>>),
                 Get(journal, "avg_time_to_publish_days", <<180, 1>>),
                 Get(journal, "open_access", FALSE),
                 Get(journal, "acceptance_rate", <<50, 1>>)),
         fit_score |-> fit_score,
         acceptance_probability |->
             EstimateAcceptanceProbability(fit_score, journal)]
        @@ journal

\* list.sort(key=composite_score, reverse=True): a stable sort, journals of
\* equal score keep their order.
SortByCompositeScore(scored) ==
    LET Before(a, b) ==
            \/ RatLess(scored[b].composite_score, scored[a].composite_score)
            \/ /\ scored[a].composite_score = scored[b].composite_score
               /\ a < b
        rank == [a \in DOMAIN scored |->
                    1 + Cardinality({b \in DOMAIN scored : Before(b, a)})]
    IN  [r \in 1..Len(scored) |->
            scored[CHOOSE a \in DOMAIN scored : rank[a] = r]]

MIN_ABSTRACT_WORDS == 10

MAX_RECOMMENDATIONS == 20

\* recommend_journals(paper_abstract, paper_keywords, preferences), given the
\* similarities the embedding model yields for the journals.  paper_keywords
\* and preferences that are None are passed as empty.
RecommendJournals(database, paper_abstract, paper_keywords, preferences, semantic_scores) ==
    IF paper_abstract = <<>> \/ WordCount(paper_abstract) < MIN_ABSTRACT_WORDS
    THEN [raised |-> "ValueError"]
    ELSE LET keyword_scores ==
                 CalculateKeywordOverlap(database, paper_keywords,
                                         semantic_scores)
             filtered_journals == ApplyFilters(database, preferences)
         IN  IF "raised" \in DOMAIN filtered_journals THEN filtered_journals
             ELSE IF \E k \in DOMAIN filtered_journals.filtered :
                        ScoringRaises(filtered_journals.filtered[k])
             THEN [raised |-> "TypeError"]
             ELSE LET scored_journals ==
                          [k \in DOMAIN filtered_journals.filtered |->
                              ScoreJournal(filtered_journals.filtered[k],
                                           semantic_scores, keyword_scores)]
                  IN  [result |->
                          Take(SortByCompositeScore(scored_journals),
                               MAX_RECOMMENDATIONS)]

\* ------------------------------------------------------------------------
\* TopicDiscoveryService.  A paper is the dict a provider returned.  A list
\* that may be null is ListOf(items) or NullList; a citation count or a
\* year that is null is 0, which the code treats as it treats None (both
\* are falsy); scores are exact rationals.
\* ------------------------------------------------------------------------
MIN_TOPIC_PAPERS == 3

MOST_COMMON_TOPICS == 100

TOP_PAPERS == 3

RECENT_YEARS == 2

\* _get_paper_topics, and the same three tests in _extract_topics: the
\* labels of fieldsOfStudy, of categories and of the concepts that have a
\* display_name, each list skipped when it is missing, null or empty.
GetPaperTopics(paper) ==
    LET List(key) ==
            IF key \in DOMAIN paper /\ ~paper[key].is_none
            THEN paper[key].items ELSE <<>>
        named == SelectSeq(List("concepts"),
                           LAMBDA c : Get(c, "display_name", None) # None)
    IN  List("fieldsOfStudy") \o List("categories")
        \o [k \in DOMAIN named |-> named[k].display_name]

\* _calculate_trend_scores(topics, papers) in the year current_year.
CalculateTrendScores(topics, papers, current_year) ==
    LET Citations(paper) ==
            IF Get(paper, "citationCount", 0) # 0 THEN paper.citationCount
            ELSE Get(paper, "cited_by_count", 0)
        \* _get_paper_year; 'published' is the year the date parses to, 0
        \* when it does not parse
        Year(paper) ==
            IF Get(paper, "year", 0) # 0 THEN paper.year
            ELSE IF "publication_year" \in DOMAIN paper
            THEN paper.publication_year
            ELSE Get(paper, "published", 0)
        IsRecent(paper) ==
            Year(paper) # 0 /\ Year(paper) >= current_year - RECENT_YEARS
        \* Counter(topics): the labels in the order they are first met
        first == {k \in DOMAIN topics : \A j \in 1..(k - 1) : topics[j] # topics[k]}
        Count(label) == Cardinality({k \in DOMAIN topics : topics[k] = label})
        \* most_common(100): by descending count, labels of equal count in
        \* the order they were first met
        MostCommon(labels, count) ==
            LET OrderedBefore(a, b) ==
                    \/ count[a] > count[b]
                    \/ count[a] = count[b] /\ a < b
                rank(a) ==
                    1 + Cardinality({b \in DOMAIN labels : OrderedBefore(b, a)})
            IN  Take([r \in DOMAIN labels |->
                         labels[CHOOSE a \in DOMAIN labels : rank(a) = r]],
                     MOST_COMMON_TOPICS)
        \* topic_data[topic]: one entry of 'papers' for every occurrence of
        \* the label in the topics of a paper
        Occurrences(label) ==
            LET Carrying(k) ==
                    LET n == Cardinality(
                                {j \in DOMAIN GetPaperTopics(papers[k]) :
                                    GetPaperTopics(papers[k])[j] = label})
                    IN  [j \in 1..n |-> papers[k]]
                all[k \in 0..Len(papers)] ==
                    IF k = 0 THEN <<>> ELSE all[k - 1] \o Carrying(k)
            IN  all[Len(papers)]
        Sum(seq, F(_)) ==
            LET sum[k \in 0..Len(seq)] ==
                    IF k = 0 THEN 0 ELSE sum[k - 1] + F(seq[k])
            IN  sum[Len(seq)]
        \* sorted(data['papers'], key=citations, reverse=True)[:3]
        TopPapers(carrying) ==
            LET Before(a, b) ==
                    \/ Citations(carrying[a]) > Citations(carrying[b])
                    \/ Citations(carrying[a]) = Citations(carrying[b]) /\ a < b
                place(a) ==
                    1 + Cardinality({b \in DOMAIN carrying : Before(b, a)})
            IN  Take([r \in DOMAIN carrying |->
                         carrying[CHOOSE a \in DOMAIN carrying : place(a) = r]],
                     TOP_PAPERS)
        TopicScore(frequency_score, citation_score, recency_score) ==
            RatAdd(RatAdd(RatMul(frequency_score, <<3, 10>>),
                          RatMul(citation_score, <<4, 10>>)),
                   RatMul(recency_score, <<3, 10>>))
        Entry(label, carrying, count, total_citations, recent_citations) ==
            The({[topic |-> label,
                  score |-> TopicScore(frequency_score, citation_score,
                                       recency_score),
                  paper_count |-> Len(carrying),
                  total_citations |-> total_citations,
                  avg_citations |-> Rat(total_citations, Len(carrying)),
                  frequency |-> count,
                  top_papers |-> TopPapers(carrying)] :
                 frequency_score \in
                     {RatMin(Rat(count * 10, Len(papers)), <<1, 1>>)},
                 citation_score \in
                     {RatMin(Rat(total_citations, Len(carrying) * 100),
                             <<1, 1>>)},
                 recency_score \in
                     {IF total_citations # 0
                      THEN RatMin(Rat(recent_citations, total_citations),
                                  <<1, 1>>)
                      ELSE <<0, 1>>}})
        Scored(label, carrying, count) ==
            The({Entry(label, carrying, count, total_citations,
                       recent_citations) :
                 total_citations \in {Sum(carrying, Citations)},
                 recent_citations \in
                     {Sum(SelectSeq(carrying, IsRecent), Citations)}})
        Scores(most_common, occurrences, count) ==
            The({[k \in DOMAIN included |->
                     The({Scored(included[k], carrying, count[included[k]]) :
                          carrying \in {occurrences[included[k]]}})] :
                 included \in
                     {SelectSeq(most_common,
                                LAMBDA label : Len(occurrences[label])
                                                   >= MIN_TOPIC_PAPERS)}})
        Ranked(labels, occurrences, count) ==
            The({Scores(most_common, occurrences, count) :
                 most_common \in
                     {MostCommon(labels,
                                 [a \in DOMAIN labels |-> count[labels[a]]])}})
        Counted(labels) ==
            The({Ranked(labels, occurrences, count) :
                 occurrences \in
                     {[label \in {labels[a] : a \in DOMAIN labels} |->
                          Occurrences(label)]},
                 count \in
                     {[label \in {labels[a] : a \in DOMAIN labels} |->
                          Count(label)]}})
    IN  The({Counted(labels) : labels \in {AtPositions(topics, first)}})

\* _get_mock_topics(discipline, limit), for a discipline that names none of
\* the keywords that make the function rename the topics.
GetMockTopics(discipline, limit) ==
    Take(<< [topic |-> "Machine Learning in Agriculture",
             score |-> Rat(95, 100), paper_count |-> 245,
             total_citations |-> 3420, avg_citations |-> <<14, 1>>,
             frequency |-> 89],
            [topic |-> "Renewable Energy Systems",
             score |-> Rat(88, 100), paper_count |-> 189,
             total_citations |-> 2890, avg_citations |-> Rat(153, 10),
             frequency |-> 67],
            [topic |-> "Water Purification Technologies",
             score |-> Rat(82, 100), paper_count |-> 156,
             total_citations |-> 2340, avg_citations |-> <<15, 1>>,
             frequency |-> 54],
            [topic |-> "Digital Education Platforms",
             score |-> Rat(79, 100), paper_count |-> 134,
             total_citations |-> 1980, avg_citations |-> Rat(148, 10),
             frequency |-> 45],
            [topic |-> "Healthcare AI Applications",
             score |-> Rat(76, 100), paper_count |-> 123,
             total_citations |-> 1850, avg_citations |-> <<15, 1>>,
             frequency |-> 41] >>,
         limit)

\* get_trending_topics(discipline, limit) in the year current_year, given
\* what the three providers answer: [papers |-> list], or [raised |-> TRUE]
\* for the exception that asyncio.gather returns in place of the list.  The
\* value is what the function returns (response) with its locals all_papers
\* and scored_topics.  related_keywords, a function of topic_name alone, is
\* left out of the formatted topics.
GetTrendingTopics(results, discipline, limit, current_year) ==
    LET answered == SelectSeq(results, LAMBDA result : "papers" \in DOMAIN result)
        concat[k \in 0..Len(answered)] ==
            IF k = 0 THEN <<>> ELSE concat[k - 1] \o answered[k].papers
        Extract(all_papers) ==
            LET extract[k \in 0..Len(all_papers)] ==
                    IF k = 0 THEN <<>>
                    ELSE extract[k - 1] \o GetPaperTopics(all_papers[k])
            IN  extract[Len(all_papers)]
        \* sorted(scored_topics, key=score, reverse=True), a stable sort
        SortedByScore(scored_topics) ==
            LET Before(a, b) ==
                    \/ RatLess(scored_topics[b].score, scored_topics[a].score)
                    \/ scored_topics[a].score = scored_topics[b].score /\ a < b
                rank(a) ==
                    1 + Cardinality({b \in DOMAIN scored_topics : Before(b, a)})
            IN  [r \in DOMAIN scored_topics |->
                    scored_topics[CHOOSE a \in DOMAIN scored_topics :
                                      rank(a) = r]]
        TopTopics(sorted) ==
            IF Take(sorted, limit) = <<>> THEN GetMockTopics(discipline, limit)
            ELSE Take(sorted, limit)
        Formatted(top_topics) ==
            [k \in DOMAIN top_topics |->
                [topic_name |-> top_topics[k].topic,
                 relevance_score |-> top_topics[k].score,
                 citation_velocity |-> top_topics[k].avg_citations,
                 emerging_trend |-> RatLess(<<8, 10>>, top_topics[k].score),
                 paper_count |-> top_topics[k].paper_count,
                 total_citations |-> top_topics[k].total_citations]]
        Respond(all_papers, scored_topics) ==
            The({[all_papers |-> all_papers,
                  scored_topics |-> scored_topics,
                  response |-> [topics |-> Formatted(top_topics)]] :
                 top_topics \in
                     {The({TopTopics(sorted) :
                           sorted \in {SortedByScore(scored_topics)}})}})
        Score(all_papers, topics) ==
            The({Respond(all_papers, scored_topics) :
                 scored_topics \in
                     {CalculateTrendScores(topics, all_papers, current_year)}})
        Discover(all_papers) ==
            The({Score(all_papers, topics) : topics \in {Extract(all_papers)}})
    IN  The({Discover(all_papers) : all_papers \in {concat[Len(answered)]}})

\* ------------------------------------------------------------------------
\* Bounds and input sets
\* ------------------------------------------------------------------------
MaxPapers == 2

MaxMatches == 3

SeqsUpTo(S, n) == UNION {[1..k -> S] : k \in 0..n}

\* A sentence of one-letter words.
Words(ws) == JoinSpace([k \in 1..Len(ws) |-> <<ws[k]>>])

RECURSIVE Repeat(_, _)
Repeat(s, k) == IF k = 0 THEN <<>> ELSE s \o Repeat(s, k - 1)

ParaBreak == <<"\n", "\n">>

Para5 == Words(<<"a", "b", "c", "a", "b">>)

ParaSimilar(first) == Words(<<first, "a", "b", "c", "a", "b", "c", "a">>)

\* 101 words: 201 characters, longer than a snippet.
ParaLong == Repeat(<<"a", " ", "b", " ">>, 50) \o <<"c">>

TextEmpty == <<>>

TextBlank == <<" ", "\n", "\n", "\t">>

TextShort == <<"\n", " ">> \o Words(<<"a", "b", "c">>) \o <<".", "\n">>

TextTwins == Para5 \o ParaBreak \o Para5

TextSentences ==
    Words(<<"A", "b", "c", "a", "b">>) \o <<".", " ", "x", "!", "?">>
    \o ParaBreak \o Para5

TextSimilar ==
    ParaSimilar("x") \o ParaBreak \o ParaSimilar("y") \o ParaBreak
    \o ParaSimilar("z")

TextLong == ParaLong \o ParaBreak \o <<" ">> \o ParaLong

\* The first k words of "a b c a b c ...".
ParaPeriodic(k) ==
    JoinSpace([i \in 1..k |-> <<(<<"a", "b", "c">>)[((i - 1) % 3) + 1]>>])

Texts ==
    {TextEmpty, TextBlank, TextShort, TextTwins, TextSentences, TextSimilar,
     TextLong}

Languages == {"en", "hi"}

Instances == {"svcA", "svcB"}

Calls == {"c1", "c2"}

\* The calls the sequential specification runs, one after the other.
SeqCalls == {"c1"}

PaperFull ==
    [title |-> "Deep Learning", abstract |-> "A survey.",
     url |-> "https://example.org/1", year |-> "2020",
     authors |-> ListOf(<<[name |-> "A1"], [name |-> "A2"], [name |-> "A3"],
                          [name |-> "A4"]>>)]

\* A candidate with a title only, the title being the label the n-gram
\* layer gives to chunk 1.
PaperTitleOnly == [title |-> "Internal chunk 1"]

PaperEmptyDict == [k \in {} |-> ""]

PaperNullAuthors ==
    [title |-> "Null Authors", abstract |-> None, authors |-> NullList]

\* What the search provider can return: up to MaxPapers candidates of its
\* catalogue, in catalogue order.
Catalogue ==
    <<PaperEmptyDict, PaperTitleOnly, PaperFull, PaperNullAuthors, NonePaper>>

SubSeqsUpTo(s, n) ==
    {AtPositions(s, I) : I \in {J \in SUBSET DOMAIN s : Cardinality(J) <= n}}

PaperSeqs == SubSeqsUpTo(Catalogue, MaxPapers)

\* What the embedding provider returns for a candidate's text.
PaperVector(paper) ==
    IF Get(paper, "title", "") = "Internal chunk 1" THEN <<1, 7>> ELSE <<4, 3>>

\* What it can return for a chunk.
ChunkVectors == {<<3, 4>>, <<1, 0>>, <<1, 7>>}

\* Arguments of the scoring and deduplication functions when they are
\* applied on their own: any list of up to MaxMatches of these matches.
Prefix50 == Repeat(<<"a", " ">>, 25)

MatchHigh ==
    [text |-> Words(<<"a", "b">>), source |-> "S1", similarity |-> <<19, 20>>,
     type |-> "high_similarity"]

\* Same snippet and source as MatchHigh, another similarity and type.
MatchSameKey ==
    [text |-> Words(<<"a", "b">>), source |-> "S1", similarity |-> <<17, 20>>,
     type |-> "paraphrase"]

MatchOtherSource ==
    [text |-> Words(<<"a", "b">>), source |-> "S2", similarity |-> <<7, 10>>,
     type |-> "paraphrase"]

\* Two snippets that agree on their first 50 characters only; similarities
\* outside [0, 1].
MatchLongX ==
    [text |-> Prefix50 \o <<"x">>, source |-> "S1", similarity |-> <<3, 2>>,
     type |-> "exact"]

MatchLongY ==
    [text |-> Prefix50 \o <<"y", " ", "z">>, source |-> "S1",
     similarity |-> <<-1, 2>>, type |-> "exact"]

\* A dict without 'text', 'source' and 'type'.
MatchBare == [similarity |-> <<4, 5>>]

\* A similarity on the boundary of the highest tier.
MatchBoundary ==
    [text |-> Words(<<"c">>), source |-> "S3", similarity |-> <<9, 10>>,
     type |-> "high_similarity"]

MatchPool ==
    {MatchHigh, MatchSameKey, MatchOtherSource, MatchLongX, MatchLongY,
     MatchBare, MatchBoundary}

MatchLists == SeqsUpTo(MatchPool, MaxMatches)

PureTexts ==
    {TextEmpty, TextBlank, Words(<<"a", "b", "c", "a">>),
     Repeat(<<"a", " ", "b", "\n">>, 16)}

\* ------------------------------------------------------------------------
\* State
\* ------------------------------------------------------------------------
VARIABLES
    cohere_client,  \* per service instance: is self.cohere_client set
    call,           \* per check_plagiarism call: its locals and its result
    last_offline,   \* the latest check_online=False call that has returned
    p_pc,           \* the pure-function runs: which function has been applied
    p_text,         \* ... the text argument
    p_matches,      \* ... the match list argument
    p_sub,          \* ... a sub-list of the match list
    p_args,         \* ... the other arguments
    p_out           \* ... the values returned

vars ==
    <<cohere_client, call, last_offline, p_pc, p_text, p_matches, p_sub, p_args,
      p_out>>

pipeline_vars == <<cohere_client, call, last_offline>>

pure_vars == <<p_pc, p_text, p_matches, p_sub, p_args, p_out>>

NoResult == [none |-> TRUE]

IdleCall ==
    [pc |-> "idle", svc |-> "svcA", text |-> <<>>, language |-> "",
     check_online |-> FALSE, chunks |-> <<>>, ngram_matches |-> <<>>,
     chunk_embeddings |-> <<>>, i |-> 0, matches |-> <<>>,
     all_matches |-> <<>>, result |-> NoResult, raised |-> FALSE,
     embed_calls |-> 0, search_calls |-> 0, embed_failed |-> FALSE,
     failed |-> {}, examined |-> <<>>, log |-> <<>>, overlapped |-> FALSE]

\* Every chunk examined, not only the first 10.
ChunksToCheckAll(chunks) == chunks

\* chunks_to_check = chunks[:10]
ChunksToCheck(chunks) == Take(chunks, MAX_CHUNKS_TO_CHECK)

\* A call to a provider as the log of a call keeps it: the batched
\* embedding of n chunks, the search for chunk i, the embedding of the
\* candidates of chunk i.
EmbedChunks(n) == [op |-> "embed_chunks", arg |-> n]

Search(i) == [op |-> "search", arg |-> i]

EmbedCandidates(i) == [op |-> "embed_candidates", arg |-> i]

\* The list of Layer 3 kept on the service instead of in the call: the
\* matches the other calls have collected so far are in it as well.
FinishSharedList(rec, semantic_matches) ==
    LET others ==
            SelectSeq(call["c1"].matches \o call["c2"].matches,
                      LAMBDA m : \A k \in DOMAIN semantic_matches :
                                    semantic_matches[k] # m)
        all_matches == AllMatches(FingerprintDetection(rec.chunks),
                                  rec.ngram_matches,
                                  semantic_matches \o others)
    IN  [rec EXCEPT !.pc = "done",
                    !.chunk_embeddings = <<>>,
                    !.all_matches = all_matches,
                    !.result = BuildResult(rec.text, rec.language, all_matches)]

\* The rest of check_plagiarism once Layer 3 has returned semantic_matches.
Finish(rec, semantic_matches) ==
    The({[rec EXCEPT !.pc = "done",
                     !.chunk_embeddings = <<>>,
                     !.all_matches = all_matches,
                     !.result = BuildResult(rec.text, rec.language, all_matches)] :
         all_matches \in {AllMatches(FingerprintDetection(rec.chunks),
                                     rec.ngram_matches, semantic_matches)}})

\* The exception leaves check_plagiarism: the caller gets no result.
Propagate(rec) ==
    [rec EXCEPT !.pc = "done", !.chunk_embeddings = <<>>, !.raised = TRUE]

\* check_plagiarism up to the call of Layer 3.
Started(svc, text, language, check_online) ==
    LET chunks == ChunkText(text, MIN_CHUNK_SIZE)
    IN  [IdleCall EXCEPT !.svc = svc, !.text = text, !.language = language,
                         !.check_online = check_online, !.chunks = chunks,
                         !.ngram_matches =
                             NgramDetection(chunks, NGRAM_N, NGRAM_THRESHOLD)]

\* Layer 3 run whenever a client is configured.
RunsSemanticAnyMode(svc, check_online) == cohere_client[svc]

\* Layer 3 runs: a client is configured (the test in check_plagiarism) and
\* _semantic_detection does not return at its first test.
RunsSemantic(svc, check_online) ==
    cohere_client[svc] /\ SemanticEnabled(check_online, cohere_client[svc])

\* (p_pc is "off" except in the runs that apply one function on its own.)
CanInvoke(c) == call[c].pc = "idle" /\ p_pc = "off"

\* check_plagiarism when Layer 3 is skipped or returns at once: the whole
\* call runs without suspending.
InvokeNoSemantic(c, svc, text, language, check_online) ==
    /\ CanInvoke(c)
    /\ ~RunsSemantic(svc, check_online)
    /\ call' = [call EXCEPT ![c] =
                    Finish(Started(svc, text, language, check_online), <<>>)]
    /\ UNCHANGED <<cohere_client, last_offline, pure_vars>>

\* check_plagiarism with Layer 3 running and the chunk-embedding call raising.
InvokeEmbedRaises(c, svc, text, language, check_online) ==
    /\ CanInvoke(c)
    /\ RunsSemantic(svc, check_online)
    /\ LET started == Started(svc, text, language, check_online)
           rec == [started EXCEPT
                      !.embed_calls = 1, !.embed_failed = TRUE,
                      !.log = <<EmbedChunks(
                                    Len(ChunksToCheck(started.chunks)))>>]
       IN  call' = [call EXCEPT ![c] =
                       IF AfterEmbedError.raised THEN Propagate(rec)
                       ELSE Finish(rec, AfterEmbedError.matches)]
    /\ UNCHANGED <<cohere_client, last_offline, pure_vars>>

\* check_plagiarism with Layer 3 running and the chunk embeddings returned:
\* the call suspends at the first search, or returns if there is no chunk.
InvokeEmbedReturns(c, svc, text, language, check_online, vectors) ==
    /\ CanInvoke(c)
    /\ RunsSemantic(svc, check_online)
    /\ LET started == Started(svc, text, language, check_online)
           n == Len(ChunksToCheck(started.chunks))
           rec == [started EXCEPT !.embed_calls = 1,
                                  !.log = <<EmbedChunks(n)>>]
       IN  /\ \E chunk_embeddings \in [1..n -> vectors] :
                call' = [call EXCEPT ![c] =
                    IF n = 0 THEN Finish(rec, <<>>)
                    ELSE [rec EXCEPT !.pc = "search", !.i = 0,
                                     !.search_calls = 1,
                                     !.log = Append(@, Search(0)),
                                     !.chunk_embeddings = chunk_embeddings]]
    /\ UNCHANGED <<cohere_client, last_offline, pure_vars>>

Suspended(c) == call[c].pc = "search"

\* The call resumes with the answer to the search for chunk i: the rest of
\* the loop body, then the next search or, after the last chunk, the rest of
\* check_plagiarism.  out is what ProcessChunk returns.  overlapped notes
\* that the call resumed while another call was suspended.
ChunkStep(rec, out) ==
    LET handled == IF out.stage = ""
                   THEN [matches |-> rec.matches \o out.matches, abort |-> FALSE]
                   ELSE AfterChunkError(rec.matches, out.matches)
        rec1 == [rec EXCEPT
                    !.matches = handled.matches,
                    !.embed_calls = @ + (IF out.embed_called THEN 1 ELSE 0),
                    !.examined = @ \o out.examined,
                    !.overlapped =
                        @ \/ \E d \in Calls : call[d] # rec /\ Suspended(d),
                    !.log = IF out.embed_called
                            THEN Append(@, EmbedCandidates(rec.i)) ELSE @,
                    !.failed = IF out.stage = "" THEN @
                               ELSE @ \cup {[chunk |-> rec.i, stage |-> out.stage,
                                             candidates |-> out.candidates]}]
    IN  IF handled.abort
        THEN (IF AfterEmbedError.raised THEN Propagate(rec1)
              ELSE Finish(rec1, AfterEmbedError.matches))
        ELSE IF rec.i + 1 < Len(ChunksToCheck(rec.chunks))
        THEN [rec1 EXCEPT !.i = rec.i + 1, !.search_calls = @ + 1,
                          !.log = Append(@, Search(rec.i + 1))]
        ELSE Finish(rec1, rec1.matches)

CurrentChunk(rec) == ChunksToCheck(rec.chunks)[rec.i + 1]

\* search_papers raises.
SearchRaises(c) ==
    /\ Suspended(c)
    /\ LET rec == call[c]
           out == ProcessChunk(CurrentChunk(rec), rec.i,
                               rec.chunk_embeddings[rec.i + 1],
                               FALSE, <<>>, TRUE, <<>>)
       IN  call' = [call EXCEPT ![c] = ChunkStep(rec, out)]
    /\ UNCHANGED <<cohere_client, last_offline, pure_vars>>

NeedsEmbedding(papers) ==
    papers # <<>> /\ ~TextsRaise(papers) /\ ValidPapers(papers) # <<>>

\* search_papers returns candidates of which none is embedded: no candidate,
\* a candidate that is None, or candidates without any text.
SearchReturnsNoText(c, paper_seqs) ==
    /\ Suspended(c)
    /\ LET rec == call[c]
       IN  \E out \in {ProcessChunk(CurrentChunk(rec), rec.i,
                                    rec.chunk_embeddings[rec.i + 1],
                                    TRUE, papers, TRUE, <<>>) :
                        papers \in {p \in paper_seqs : ~NeedsEmbedding(p)}} :
               call' = [call EXCEPT ![c] = ChunkStep(rec, out)]
    /\ UNCHANGED <<cohere_client, last_offline, pure_vars>>

\* search_papers returns candidates and the call that embeds them raises.
CandidateEmbedRaises(c, paper_seqs) ==
    /\ Suspended(c)
    /\ LET rec == call[c]
       IN  \E out \in {ProcessChunk(CurrentChunk(rec), rec.i,
                                    rec.chunk_embeddings[rec.i + 1],
                                    TRUE, papers, FALSE, <<>>) :
                        papers \in {p \in paper_seqs : NeedsEmbedding(p)}} :
               call' = [call EXCEPT ![c] = ChunkStep(rec, out)]
    /\ UNCHANGED <<cohere_client, last_offline, pure_vars>>

\* The embeddings returned for the candidates that have a text.
CandidateVectors(papers) ==
    LET valid_papers == ValidPapers(papers)
    IN  [k \in 1..Len(valid_papers) |-> PaperVector(valid_papers[k])]

\* search_papers returns candidates and their embeddings are returned.
CandidateEmbedReturns(c, paper_seqs) ==
    /\ Suspended(c)
    /\ LET rec == call[c]
       IN  \E out \in {ProcessChunk(CurrentChunk(rec), rec.i,
                                    rec.chunk_embeddings[rec.i + 1],
                                    TRUE, papers, TRUE, CandidateVectors(papers)) :
                        papers \in {p \in paper_seqs : NeedsEmbedding(p)}} :
               call' = [call EXCEPT ![c] = ChunkStep(rec, out)]
    /\ UNCHANGED <<cohere_client, last_offline, pure_vars>>

\* The caller has the outcome of the call and is free to call again.
Return(c) ==
    /\ call[c].pc = "done"
    /\ call' = [call EXCEPT ![c] = IdleCall]
    /\ UNCHANGED <<cohere_client, last_offline, pure_vars>>

\* The same, the result of a check_online=False call being kept for
\* comparison with the calls that follow.
ReturnKept(c) ==
    /\ call[c].pc = "done"
    /\ call' = [call EXCEPT ![c] = IdleCall]
    /\ last_offline' =
          IF ~call[c].check_online /\ ~call[c].raised
          THEN [svc |-> call[c].svc, text |-> call[c].text,
                language |-> call[c].language, result |-> call[c].result]
          ELSE last_offline
    /\ UNCHANGED <<cohere_client, pure_vars>>

\* ------------------------------------------------------------------------
\* The pipeline: calls of check_plagiarism, one after the other, on two
\* service instances, one built with an embedding client and one without.
\* ------------------------------------------------------------------------
PureIdle ==
    /\ p_pc = "off"
    /\ p_text = <<>>
    /\ p_matches = <<>>
    /\ p_sub = <<>>
    /\ p_args = NoResult
    /\ p_out = NoResult

Init ==
    /\ cohere_client = [svc \in Instances |-> svc = "svcA"]
    /\ call = [c \in Calls |-> IdleCall]
    /\ last_offline = NoResult
    /\ PureIdle

Invoke(c) ==
    \E svc \in Instances, text \in Texts, language \in Languages,
       check_online \in BOOLEAN :
        \/ InvokeNoSemantic(c, svc, text, language, check_online)
        \/ InvokeEmbedRaises(c, svc, text, language, check_online)
        \/ InvokeEmbedReturns(c, svc, text, language, check_online,
                              ChunkVectors)

Resume(c) ==
    \/ SearchRaises(c)
    \/ SearchReturnsNoText(c, PaperSeqs)
    \/ CandidateEmbedRaises(c, PaperSeqs)
    \/ CandidateEmbedReturns(c, PaperSeqs)

Next == \E c \in SeqCalls : Invoke(c) \/ Resume(c) \/ Return(c)

Spec == Init /\ [][Next]_vars

\* ------------------------------------------------------------------------
\* The scoring and deduplication functions applied on their own to any
\* text and any list of matches.
\* ------------------------------------------------------------------------
PipelineIdle ==
    /\ cohere_client = [svc \in Instances |-> svc = "svcA"]
    /\ call = [c \in Calls |-> IdleCall]
    /\ last_offline = NoResult

PureInit ==
    /\ PipelineIdle
    /\ p_pc = "input"
    /\ p_text \in PureTexts
    /\ p_matches \in MatchLists
    /\ p_sub = <<>>
    /\ p_args = NoResult
    /\ p_out = NoResult

\* _calculate_originality_score(text, matches), _calculate_statistics(text,
\* matches)
PureScore ==
    /\ p_pc = "input"
    /\ p_pc' = "scored"
    /\ p_out' = [score |-> CalculateOriginalityScore(p_text, p_matches),
                 statistics |-> CalculateStatistics(p_text, p_matches)]
    /\ UNCHANGED <<p_text, p_matches, p_sub, p_args, pipeline_vars>>

\* _calculate_originality_score on the list and on a sub-list of it
PureScoreSub ==
    /\ p_pc = "input"
    /\ \E I \in SUBSET DOMAIN p_matches :
        /\ p_sub' = AtPositions(p_matches, I)
        /\ p_out' = [score |-> CalculateOriginalityScore(p_text, p_matches),
                     sub_score |-> CalculateOriginalityScore(p_text, p_sub')]
    /\ p_pc' = "compared"
    /\ UNCHANGED <<p_text, p_matches, p_args, pipeline_vars>>

\* _deduplicate_matches(matches)
PureDedup ==
    /\ p_pc = "input"
    /\ p_pc' = "deduped"
    /\ p_out' = [unique |-> DeduplicateMatches(p_matches)]
    /\ UNCHANGED <<p_text, p_matches, p_sub, p_args, pipeline_vars>>

\* _deduplicate_matches applied to what it returned
PureDedupAgain ==
    /\ p_pc = "deduped"
    /\ p_pc' = "deduped_twice"
    /\ p_out' = [unique |-> p_out.unique,
                 again |-> DeduplicateMatches(p_out.unique)]
    /\ UNCHANGED <<p_text, p_matches, p_sub, p_args, pipeline_vars>>

PureNext == PureScore \/ PureScoreSub \/ PureDedup \/ PureDedupAgain

SpecPure == PureInit /\ [][PureNext]_vars

\* Both: the pipeline, or a function applied on its own.
SpecAll == (Init \/ PureInit) /\ [][Next \/ PureNext]_vars

\* ------------------------------------------------------------------------
\* Calls one after the other, the result of the latest check_online=False
\* call being kept.  The calls that reach Layer 3 are made on TextTwins and
\* get at most one candidate per search.
\* ------------------------------------------------------------------------
InvokeOnline(c) ==
    \E svc \in Instances, language \in Languages :
        \/ InvokeNoSemantic(c, svc, TextTwins, language, TRUE)
        \/ InvokeEmbedRaises(c, svc, TextTwins, language, TRUE)
        \/ InvokeEmbedReturns(c, svc, TextTwins, language, TRUE, {<<3, 4>>})

InvokeOffline(c) ==
    \E svc \in Instances, text \in Texts, language \in Languages :
        \/ InvokeNoSemantic(c, svc, text, language, FALSE)
        \/ InvokeEmbedRaises(c, svc, text, language, FALSE)
        \/ InvokeEmbedReturns(c, svc, text, language, FALSE, {<<3, 4>>})

ResumeRepeat(c) ==
    \/ SearchRaises(c)
    \/ SearchReturnsNoText(c, SubSeqsUpTo(Catalogue, 1))
    \/ CandidateEmbedRaises(c, SubSeqsUpTo(Catalogue, 1))
    \/ CandidateEmbedReturns(c, SubSeqsUpTo(Catalogue, 1))

RepeatNext ==
    \E c \in SeqCalls :
        InvokeOnline(c) \/ InvokeOffline(c) \/ ResumeRepeat(c) \/ ReturnKept(c)

SpecRepeat == Init /\ [][RepeatNext]_vars

\* ------------------------------------------------------------------------
\* Calls that skip Layer 3 (check_online=False, or no client), one after the
\* other, on the texts above and on texts of up to MaxParagraphs periodic
\* paragraphs, which are near duplicates of each other.
\* ------------------------------------------------------------------------
MaxParagraphs == 3

\* The paragraphs "a b c a b c ..." of the given numbers of words, a blank
\* line between them.
RECURSIVE PeriodicText(_)
PeriodicText(lengths) ==
    IF lengths = <<>> THEN <<>>
    ELSE IF Len(lengths) = 1 THEN ParaPeriodic(lengths[1])
    ELSE ParaPeriodic(lengths[1]) \o ParaBreak \o PeriodicText(Tail(lengths))

OfflineTexts ==
    Texts \cup {PeriodicText(ls) : ls \in SeqsUpTo({5, 8, 10}, MaxParagraphs)}

InvokeSkippingSemantic(c) ==
    \E svc \in Instances, text \in OfflineTexts, language \in Languages,
       check_online \in BOOLEAN :
        InvokeNoSemantic(c, svc, text, language, check_online)

OfflineNext == \E c \in SeqCalls : InvokeSkippingSemantic(c) \/ Return(c)

SpecOffline == Init /\ [][OfflineNext]_vars

\* ------------------------------------------------------------------------
\* _ngram_detection applied on its own to any list of up to MaxChunks chunks
\* of a pool, any n of NgramSizes and any threshold of Thresholds.
\* ------------------------------------------------------------------------
MaxChunks == 3

ChunkPool ==
    {Words(<<"a", "b", "c", "a", "b">>), Words(<<"A", "B", "c", "a", "b">>),
     Words(<<"a", "b", "c">>), Words(<<"b", "c", "d">>), Words(<<"d">>),
     Repeat(<<"a", "\t", "b", " ">>, 101)}

NgramSizes == {1, 2, 5}

Thresholds == {<<0, 1>>, <<3, 5>>, <<1, 1>>}

NgramInit ==
    /\ PipelineIdle
    /\ p_pc = "input"
    /\ p_text = <<>>
    /\ p_matches = <<>>
    /\ p_sub = <<>>
    /\ p_args \in [chunks : SeqsUpTo(ChunkPool, MaxChunks), n : NgramSizes,
                    threshold : Thresholds]
    /\ p_out = NoResult

\* _ngram_detection(chunks, n, threshold)
PureNgram ==
    /\ p_pc = "input"
    /\ p_pc' = "ngrams"
    /\ p_out' = [matches |-> NgramDetection(p_args.chunks, p_args.n,
                                             p_args.threshold)]
    /\ UNCHANGED <<p_text, p_matches, p_sub, p_args, pipeline_vars>>

\* _ngram_detection on two chunks, and on the two chunks in the other order
PureNgramSwapped ==
    /\ p_pc = "input"
    /\ Len(p_args.chunks) = 2
    /\ p_pc' = "ngrams_swapped"
    /\ p_out' = [forward |-> NgramDetection(p_args.chunks, p_args.n,
                                             p_args.threshold),
                 backward |-> NgramDetection(<<p_args.chunks[2],
                                               p_args.chunks[1]>>,
                                             p_args.n, p_args.threshold)]
    /\ UNCHANGED <<p_text, p_matches, p_sub, p_args, pipeline_vars>>

NgramNext == PureNgram \/ PureNgramSwapped

SpecNgram == NgramInit /\ [][NgramNext]_vars

\* ------------------------------------------------------------------------
\* _chunk_text applied on its own to every text of up to MaxTextLen
\* characters of an alphabet, and to the longer texts above, with any
\* min_chunk_size of MinChunkSizes.
\* ------------------------------------------------------------------------
MaxTextLen == 5

Alphabet == {"a", "b", " ", ".", "\n"}

ChunkerTexts ==
    SeqsUpTo(Alphabet, MaxTextLen)
    \cup {TextBlank, TextShort, TextSentences, TextLong,
          Words(<<"a", "b">>) \o <<"!", "?", "\t">> \o Words(<<"c", "d", "e">>)
          \o <<".", " ">> \o Words(<<"f", "g", "h">>)}

MinChunkSizes == {0, 2, 3, 100}

ChunkInit ==
    /\ PipelineIdle
    /\ p_pc = "input"
    /\ p_text \in ChunkerTexts
    /\ p_matches = <<>>
    /\ p_sub = <<>>
    /\ p_args \in [min_chunk_size : MinChunkSizes]
    /\ p_out = NoResult

\* _chunk_text(text, min_chunk_size)
PureChunk ==
    /\ p_pc = "input"
    /\ p_pc' = "chunked"
    /\ p_out' = [chunks |-> ChunkText(p_text, p_args.min_chunk_size)]
    /\ UNCHANGED <<p_text, p_matches, p_sub, p_args, pipeline_vars>>

SpecChunk == ChunkInit /\ [][PureChunk]_vars

\* ------------------------------------------------------------------------
\* _identify_claims applied on its own to documents of up to MaxSentences
\* sentences of a pool, and to a document with more than MAX_CLAIMS
\* sentences that qualify.
\* ------------------------------------------------------------------------
MaxSentences == 2

\* "Research shows a b c"
SentResearch ==
    <<"R", "e", "s", "e", "a", "r", "c", "h", " ", "s", "h", "o", "w", "s",
      " ", "a", " ", "b", " ", "c">>

\* "research shows it"
SentTooShort ==
    <<"r", "e", "s", "e", "a", "r", "c", "h", " ", "s", "h", "o", "w", "s",
      " ", "i", "t">>

\* "a b c d e f"
SentPlain ==
    <<"a", " ", "b", " ", "c", " ", "d", " ", "e", " ", "f">>

\* "according to studies have shown x"
SentTwoPatterns ==
    <<"a", "c", "c", "o", "r", "d", "i", "n", "g", " ", "t", "o", " ", "s",
      "t", "u", "d", "i", "e", "s", " ", "h", "a", "v", "e", " ", "s", "h",
      "o", "w", "n", " ", "x">>

\* "it has been proven a b"
SentProven ==
    <<"i", "t", " ", "h", "a", "s", " ", "b", "e", "e", "n", " ", "p", "r",
      "o", "v", "e", "n", " ", "a", " ", "b">>

\* "the study found a b c"
SentStudy ==
    <<"t", "h", "e", " ", "s", "t", "u", "d", "y", " ", "f", "o", "u", "n",
      "d", " ", "a", " ", "b", " ", "c">>

\* "Experiments demonstrate a b c"
SentExperiments ==
    <<"E", "x", "p", "e", "r", "i", "m", "e", "n", "t", "s", " ", "d", "e",
      "m", "o", "n", "s", "t", "r", "a", "t", "e", " ", "a", " ", "b", " ",
      "c">>

\* "evidence\tsuggests a b c"
SentTab ==
    <<"e", "v", "i", "d", "e", "n", "c", "e", "\t", "s", "u", "g", "g", "e",
      "s", "t", "s", " ", "a", " ", "b", " ", "c">>
SentencePool ==
    {SentResearch, SentTooShort, SentPlain, SentTwoPatterns, SentProven,
     SentStudy, SentExperiments, SentTab}

Terminators == << <<".", " ">>, <<"?", "!", " ">>, <<"!", "\n">> >>

\* The sentences, each followed by a terminator.
RECURSIVE Document(_)
Document(sentences) ==
    IF sentences = <<>> THEN <<>>
    ELSE Head(sentences) \o Terminators[(Len(sentences) % 3) + 1]
         \o Document(Tail(sentences))

\* Twelve sentences that qualify among twenty-four.
TextManyClaims ==
    Repeat(Document(<<SentResearch, SentTooShort, SentPlain,
                      SentTwoPatterns>>), 6)

ClaimTexts ==
    {Document(ss) : ss \in SeqsUpTo(SentencePool, MaxSentences)}
    \cup {TextManyClaims}

ClaimsInit ==
    /\ PipelineIdle
    /\ p_pc = "input"
    /\ p_text \in ClaimTexts
    /\ p_matches = <<>>
    /\ p_sub = <<>>
    /\ p_args = NoResult
    /\ p_out = NoResult

\* _identify_claims(text)
PureIdentifyClaims ==
    /\ p_pc = "input"
    /\ p_pc' = "claims"
    /\ p_out' = [claims |-> IdentifyClaims(p_text)]
    /\ UNCHANGED <<p_text, p_matches, p_sub, p_args, pipeline_vars>>

SpecClaims == ClaimsInit /\ [][PureIdentifyClaims]_vars

\* ------------------------------------------------------------------------
\* The journal service: _calculate_composite_score applied to a grid of
\* inputs, twice with two impact factors; recommend_journals applied to a
\* database, an abstract, keywords, preferences and the similarities of the
\* embedding model, which are any cosines.
\* ------------------------------------------------------------------------
SemanticValues == {<<-1, 1>>, <<1, 4>>, <<1, 1>>}

KeywordValues == {<<0, 1>>, <<1, 3>>, <<1, 1>>}

ImpactFactors ==
    {<<0, 1>>, <<1, 2>>, <<5, 1>>, <<10, 1>>, <<20, 1>>, <<50, 1>>}

PublishDays == {<<0, 1>>, <<1, 1>>, <<180, 1>>, <<365, 1>>, <<400, 1>>}

AcceptanceRates == {<<0, 1>>, <<7, 1>>, <<50, 1>>, <<100, 1>>}

\* The sample database without its last journal, the one with None values.
IndexedJournals == SubSeq(SampleJournals, 1, 4)

Databases == {SampleJournals, IndexedJournals}

Abstracts == {<<>>, ParaPeriodic(9), ParaPeriodic(10)}

KeywordLists ==
    {<<>>, <<"Science", "Research">>, <<"zoology">>,
     <<"open access", "Physics", "deep learning">>}

NoPreferences == [k \in {} |-> ""]

PreferenceSets ==
    {NoPreferences,
     [required_indexing |-> {"Scopus"}],
     [required_indexing |-> {"Scopus", "Web of Science"},
      open_access_only |-> TRUE],
     [max_apc |-> <<2000, 1>>],
     [min_impact_factor |-> <<4, 1>>],
     [max_time_to_publish |-> <<100, 1>>, required_indexing |-> {"Scopus"}],
     [exclude_predatory |-> FALSE, open_access_only |-> TRUE]}

JournalIds(database) == {database[k].id : k \in DOMAIN database}

CompositeInit ==
    /\ PipelineIdle
    /\ p_pc = "score_input"
    /\ p_text = <<>>
    /\ p_matches = <<>>
    /\ p_sub = <<>>
    /\ p_args \in [semantic_score : SemanticValues \cup {<<0, 1>>},
                   keyword_score : KeywordValues,
                   impact_factor : ImpactFactors,
                   other_impact_factor : ImpactFactors,
                   time_to_publish : PublishDays,
                   open_access : BOOLEAN,
                   acceptance_rate : AcceptanceRates]
    /\ p_out = NoResult

RecommendInit ==
    /\ PipelineIdle
    /\ p_pc = "recommend_input"
    /\ p_text \in Abstracts
    /\ p_matches = <<>>
    /\ p_sub = <<>>
    /\ \E database \in Databases :
          p_args \in [database : {database},
                      paper_keywords : KeywordLists,
                      preferences : PreferenceSets,
                      semantic_scores :
                          [JournalIds(database) -> SemanticValues]]
    /\ p_out = NoResult

JournalInit == CompositeInit \/ RecommendInit

\* _calculate_composite_score for two journals that differ in impact factor
\* only.
PureCompositeScore ==
    /\ p_pc = "score_input"
    /\ p_pc' = "composite"
    /\ p_out' =
          [score |->
              CalculateCompositeScore(
                  p_args.semantic_score, p_args.keyword_score,
                  p_args.impact_factor, p_args.time_to_publish,
                  p_args.open_access, p_args.acceptance_rate),
           other_score |->
              CalculateCompositeScore(
                  p_args.semantic_score, p_args.keyword_score,
                  p_args.other_impact_factor, p_args.time_to_publish,
                  p_args.open_access, p_args.acceptance_rate)]
    /\ UNCHANGED <<p_text, p_matches, p_sub, p_args, pipeline_vars>>

\* recommend_journals(paper_abstract, paper_keywords, preferences)
Recommend ==
    /\ p_pc = "recommend_input"
    /\ p_pc' = "recommended"
    /\ p_out' = RecommendJournals(p_args.database, p_text,
                                  p_args.paper_keywords, p_args.preferences,
                                  p_args.semantic_scores)
    /\ UNCHANGED <<p_text, p_matches, p_sub, p_args, pipeline_vars>>

JournalNext == PureCompositeScore \/ Recommend

SpecJournal == JournalInit /\ [][JournalNext]_vars

\* ------------------------------------------------------------------------
\* Online calls on texts of more chunks than Layer 3 examines: paragraphs of
\* 1, 2, 3, ... words, each a chunk of its own.  For every examined chunk
\* the search raises, or it returns one candidate whose embedding raises or
\* is returned.
\* ------------------------------------------------------------------------
MaxLongChunks == 11

LongTexts == {PeriodicText([k \in 1..MaxLongChunks |-> k])}

InvokeLong(c) ==
    \E text \in LongTexts :
        InvokeEmbedReturns(c, "svcA", text, "en", TRUE, {<<3, 4>>})

ResumeLong(c) ==
    \/ SearchRaises(c)
    \/ CandidateEmbedRaises(c, {<<PaperFull>>})
    \/ CandidateEmbedReturns(c, {<<PaperFull>>})

LongNext == \E c \in SeqCalls : InvokeLong(c) \/ ResumeLong(c) \/ Return(c)

SpecLong == Init /\ [][LongNext]_vars

\* ------------------------------------------------------------------------
\* Two calls of check_plagiarism in flight at once on one service instance:
\* either call can start or resume whenever it is idle or suspended at a
\* search.
\* ------------------------------------------------------------------------
ConcurrentTexts == {TextTwins, TextSentences}

ConcurrentPapers == {<<PaperFull>>, <<PaperFull, PaperNullAuthors>>}

InvokeConcurrent(c) ==
    \E text \in ConcurrentTexts, language \in Languages :
        InvokeEmbedReturns(c, "svcA", text, language, TRUE, {<<3, 4>>})

ResumeConcurrent(c) ==
    \/ SearchRaises(c)
    \/ CandidateEmbedRaises(c, ConcurrentPapers)
    \/ CandidateEmbedReturns(c, ConcurrentPapers)

ConcurrentNext ==
    \E c \in Calls : InvokeConcurrent(c) \/ ResumeConcurrent(c) \/ Return(c)

SpecConcurrent == Init /\ [][ConcurrentNext]_vars

\* ------------------------------------------------------------------------
\* The topic service: get_trending_topics applied to what the three
\* providers answer, up to MaxTopicPapers papers from Semantic Scholar.
\* ------------------------------------------------------------------------
MaxTopicPapers == 3

S2Old ==
    [fieldsOfStudy |-> ListOf(<<"Computer Science">>), citationCount |-> 500,
     year |-> 2020]

S2Recent ==
    [fieldsOfStudy |-> ListOf(<<"Computer Science", "Biology">>),
     citationCount |-> 0, year |-> 2025]

S2Null == [fieldsOfStudy |-> NullList, citationCount |-> 50, year |-> 0]

\* A paper whose list names one field three times.
S2Repeat ==
    [fieldsOfStudy |-> ListOf(<<"Physics", "Physics", "Physics">>),
     citationCount |-> 50, year |-> 2025]

OABio ==
    [concepts |-> ListOf(<<[display_name |-> "Biology"], [score |-> 1]>>),
     cited_by_count |-> 0, publication_year |-> 2024]

OACited ==
    [concepts |-> ListOf(<<[display_name |-> "Computer Science"]>>),
     cited_by_count |-> 30, publication_year |-> 2019]

ArxivAI == [categories |-> ListOf(<<"cs.AI">>), published |-> 2024]

ArxivUndated ==
    [categories |-> ListOf(<<"cs.AI", "Biology">>), published |-> 0]

Raised == [raised |-> TRUE]

S2Answers ==
    {Raised} \cup
    {[papers |-> ps] :
        ps \in SeqsUpTo({S2Old, S2Recent, S2Null, S2Repeat}, MaxTopicPapers)}

OpenAlexAnswers ==
    {Raised, [papers |-> <<>>], [papers |-> <<OABio>>],
     [papers |-> <<OABio, OACited>>]}

ArxivAnswers ==
    {Raised, [papers |-> <<ArxivAI>>],
     [papers |-> <<ArxivUndated, ArxivAI, ArxivAI>>]}

TopicInit ==
    /\ PipelineIdle
    /\ p_pc = "topic_input"
    /\ p_text = <<>>
    /\ p_matches = <<>>
    /\ p_sub = <<>>
    /\ p_args \in [results : S2Answers \X OpenAlexAnswers \X ArxivAnswers,
                   discipline : {"Physics"},
                   limit : {1, 20},
                   current_year : {2026, 2027}]
    /\ p_out = NoResult

\* get_trending_topics(discipline, limit)
TrendingTopics ==
    /\ p_pc = "topic_input"
    /\ p_pc' = "trending"
    /\ p_out' = GetTrendingTopics(p_args.results, p_args.discipline,
                                  p_args.limit, p_args.current_year)
    /\ UNCHANGED <<p_text, p_matches, p_sub, p_args, pipeline_vars>>

SpecTopic == TopicInit /\ [][TrendingTopics]_vars

\* ------------------------------------------------------------------------
\* Properties
\* ------------------------------------------------------------------------
Done(c) == call[c].pc = "done"

Returned(c) == Done(c) /\ ~call[c].raised

\* 100.0 and 0.0 in hundredths, the unit of the rounded score.
ScoreRange == 0..(100 * 100)

Zero == <<0, 1>>

\* The key of the deduplication as the documentation gives it: the first 50
\* characters of the snippet, and the source.
SameKey(m1, m2) ==
    /\ Take(Get(m1, "text", <<>>), 50) = Take(Get(m2, "text", <<>>), 50)
    /\ Get(m1, "source", "") = Get(m2, "source", "")

\* The positions of a list that hold the first match of their key.
FirstOfKey(a) ==
    {p \in DOMAIN a : \A q \in 1..(p - 1) : ~SameKey(a[q], a[p])}

\* The layer a match of check_plagiarism comes from, by its type.
Layer(m) == IF m.type = "near_duplicate" THEN 2 ELSE 3

IsPrefix(s, t) == Len(s) <= Len(t) /\ SubSeq(t, 1, Len(s)) = s

\* The number of Layer 3 matches a call holds for chunk i.
MatchesOfChunk(c, i) ==
    Cardinality({k \in DOMAIN call[c].matches :
                    call[c].matches[k].start_pos = i * POS_STRIDE})

\* What check_plagiarism returns for the text when Layer 3 adds nothing.
LayersOneTwoResult(text, language) ==
    LET chunks == ChunkText(text, MIN_CHUNK_SIZE)
    IN  BuildResult(text, language,
                    FingerprintDetection(chunks)
                    \o NgramDetection(chunks, NGRAM_N, NGRAM_THRESHOLD))

\* C1: _calculate_originality_score returns a value between 0 and 100 for
\* every text and every list of matches, and so the originality_score of
\* every result of check_plagiarism is between 0 and 100.
C1_ScoreInRange ==
    /\ p_pc = "scored" => p_out.score \in ScoreRange
    /\ p_pc = "compared" =>
          p_out.score \in ScoreRange /\ p_out.sub_score \in ScoreRange
    /\ \A c \in Calls :
          Returned(c) => call[c].result.originality_score \in ScoreRange

\* The words of the matches exceed the words of the text and a similarity
\* penalty applies.
C1_Witness ==
    /\ p_pc = "scored"
    /\ p_out.statistics.total_words > 0
    /\ p_out.statistics.matched_words > p_out.statistics.total_words
    /\ Penalty(p_matches) > 0
    /\ p_out.score = 0

\* C2: a text without words gives zeros and no division error:
\* check_plagiarism returns originality_score 0.0 and total_matches 0 for an
\* empty or whitespace-only text; the score and match_percentage of a text
\* of zero words are 0 whatever the matches; highest_similarity and
\* average_similarity are 0 for an empty list of matches.
C2_DegenerateInputZero ==
    /\ \A c \in Calls :
          Done(c) /\ WordCount(call[c].text) = 0 =>
              /\ ~call[c].raised
              /\ call[c].result.originality_score = 0
              /\ call[c].result.total_matches = 0
    /\ p_pc = "scored" /\ WordCount(p_text) = 0 =>
          /\ p_out.score = 0
          /\ p_out.statistics.match_percentage = Zero
    /\ p_pc = "scored" /\ p_matches = <<>> =>
          /\ p_out.statistics.highest_similarity = Zero
          /\ p_out.statistics.average_similarity = Zero

\* A whitespace-only text scored against a list of matches that has words.
C2_Witness ==
    /\ p_pc = "scored"
    /\ p_text = TextBlank
    /\ MatchedWords(p_matches) > 0
    /\ p_out.score = 0

\* C3: the list given to deduplication holds the matches of Layer 1, then
\* those of Layer 2, then those of Layer 3, each layer in chunk order, and
\* the matches of the result are the first match of each key in that order:
\* a match of an earlier layer is not replaced or displaced by a match of a
\* later layer that has its key.
C3_LayerOrderKept ==
    \A c \in Calls :
        Returned(c) =>
            LET a == call[c].all_matches
                u == call[c].result.matches
            IN  /\ \A p, q \in DOMAIN a :
                      p < q =>
                          /\ Layer(a[p]) <= Layer(a[q])
                          /\ Layer(a[p]) = Layer(a[q]) =>
                                a[p].start_pos <= a[q].start_pos
                /\ u = AtPositions(a, FirstOfKey(a))

\* A Layer 3 match has the key of a Layer 2 match and is dropped, and
\* another Layer 3 match survives after the Layer 2 match.
C3_Witness ==
    \E c \in Calls :
        /\ Returned(c)
        /\ LET a == call[c].all_matches
               u == call[c].result.matches
           IN  /\ \E p, q \in DOMAIN a :
                     /\ Layer(a[p]) = 2
                     /\ Layer(a[q]) = 3
                     /\ SameKey(a[p], a[q])
               /\ \E j, k \in DOMAIN u :
                     j < k /\ Layer(u[j]) = 2 /\ Layer(u[k]) = 3

\* Every examined chunk of the call has a failure of its search or of its
\* candidate-embedding call.
AllChunksFailed(c) ==
    \A i \in 0..(Len(ChunksToCheck(call[c].chunks)) - 1) :
        \E f \in call[c].failed :
            f.chunk = i /\ f.stage \in {"search", "embed"}

\* C4: when the chunk-embedding call raises, or the search or the
\* candidate-embedding call raises for every chunk, check_plagiarism with
\* check_online=true raises nothing and returns the result it returns for
\* the text with check_online=false.
C4_ProviderFailureContained ==
    \A c \in Calls :
        Done(c) /\ call[c].check_online
        /\ (call[c].embed_failed \/ AllChunksFailed(c)) =>
            /\ ~call[c].raised
            /\ call[c].result
                   = LayersOneTwoResult(call[c].text, call[c].language)

\* Layer 3 ran on two chunks or more, one search and one candidate-embedding
\* call raised at least, and Layer 2 has matches.
C4_Witness ==
    \E c \in Calls :
        /\ Returned(c)
        /\ call[c].check_online
        /\ ~call[c].embed_failed
        /\ Len(call[c].chunks) >= 2
        /\ AllChunksFailed(c)
        /\ \E f, g \in call[c].failed :
              f.stage = "search" /\ g.stage = "embed"
        /\ call[c].result.total_matches > 0

C5_FailedChunkMatches ==
    \A c \in Calls :
        \A f \in call[c].failed :
            /\ f.stage \in {"search", "texts", "embed"} =>
                  MatchesOfChunk(c, f.chunk) = 0
            /\ f.stage = "emit" => MatchesOfChunk(c, f.chunk) < f.candidates
            /\ Returned(c) =>
                  call[c].all_matches
                      = call[c].ngram_matches \o call[c].matches

C5_ChunkStep ==
    \A c \in Calls :
        Suspended(c) /\ call'[c] # call[c] =>
            /\ IsPrefix(call[c].matches, call'[c].matches)
            /\ IF call[c].i + 1 < Len(ChunksToCheck(call[c].chunks))
               THEN /\ call'[c].pc = "search"
                    /\ call'[c].i = call[c].i + 1
                    /\ call'[c].search_calls = call[c].search_calls + 1
               ELSE Returned(c)' /\ call'[c].search_calls = call[c].search_calls

LayerThreeOff(c) == ~call[c].check_online \/ ~cohere_client[call[c].svc]

\* C6: when check_online is false or no embedding client is configured,
\* Layer 3 makes no embedding call and no search call, returns no match and
\* raises nothing, and the matches of check_plagiarism are those of Layers 1
\* and 2.
C6_OfflineNoProviderCall ==
    \A c \in Calls :
        call[c].pc # "idle" /\ LayerThreeOff(c) =>
            /\ call[c].embed_calls = 0
            /\ call[c].search_calls = 0
            /\ call[c].matches = <<>>
            /\ Returned(c)
            /\ call[c].all_matches
                   = FingerprintDetection(call[c].chunks)
                     \o call[c].ngram_matches
            /\ \A k \in DOMAIN call[c].result.matches :
                  Layer(call[c].result.matches[k]) = 2

\* A check_online=false call on the instance that has an embedding client,
\* with Layer 2 matches.
C6_Witness ==
    \E c \in Calls :
        /\ Returned(c)
        /\ ~call[c].check_online
        /\ cohere_client[call[c].svc]
        /\ call[c].result.total_matches > 0

\* C7: _deduplicate_matches returns the sub-sequence of its argument made of
\* the first match of each key (first 50 characters of the text, source): no
\* two survivors have the same key, every key of the argument has a
\* survivor, and the survivors are in the order of the argument.
C7_FirstOfEachKey ==
    p_pc = "deduped" =>
        LET u == p_out.unique
        IN  /\ u = AtPositions(p_matches, FirstOfKey(p_matches))
            /\ \A j, k \in DOMAIN u : j # k => ~SameKey(u[j], u[k])
            /\ \A p \in DOMAIN p_matches :
                  \E k \in DOMAIN u : SameKey(u[k], p_matches[p])

\* The first and the third match differ after their 50th character only and
\* the third is dropped; the second has the snippet of another survivor's
\* source or another source, and survives.
C7_Witness ==
    /\ p_pc = "deduped"
    /\ Len(p_matches) = 3
    /\ Len(p_out.unique) = 2
    /\ Get(p_matches[1], "text", <<>>) # Get(p_matches[3], "text", <<>>)
    /\ SameKey(p_matches[1], p_matches[3])
    /\ p_out.unique = <<p_matches[1], p_matches[2]>>

\* C8: _deduplicate_matches applied to what it returned returns it
\* unchanged, the same matches in the same order.
C8_DedupIdempotent ==
    p_pc = "deduped_twice" => p_out.again = p_out.unique

\* The first application dropped a match and kept two at least.
C8_Witness ==
    /\ p_pc = "deduped_twice"
    /\ Len(p_out.unique) < Len(p_matches)
    /\ Len(p_out.unique) >= 2
    /\ p_out.again = p_out.unique

\* C9: for every text, the score of a list of matches is at most the score
\* of any list made of some of its matches.
C9_ScoreMonotone ==
    p_pc = "compared" => p_out.score <= p_out.sub_score

\* The longer list scores strictly less than a non-empty part of it.
C9_Witness ==
    /\ p_pc = "compared"
    /\ p_sub # <<>>
    /\ Len(p_sub) < Len(p_matches)
    /\ p_out.score < p_out.sub_score

\* The kept result is that of a check_online=false call with the text and
\* the language of call c.
SameInputAsKept(c) ==
    /\ last_offline # NoResult
    /\ last_offline.text = call[c].text
    /\ last_offline.language = call[c].language

\* C10: a check_online=false call returns the result that the latest
\* check_online=false call with the same text and language returned, on the
\* same instance or on another, whatever calls were made in between.
C10_OfflineDeterministic ==
    \A c \in Calls :
        Done(c) /\ ~call[c].check_online /\ SameInputAsKept(c) =>
            ~call[c].raised /\ call[c].result = last_offline.result

\* The two calls were made on different instances and have a match.
C10_Witness ==
    \E c \in Calls :
        /\ Returned(c)
        /\ ~call[c].check_online
        /\ SameInputAsKept(c)
        /\ last_offline.svc # call[c].svc
        /\ call[c].result.total_matches > 0

One == <<1, 1>>

InUnitInterval(x) == RatGeq(x, Zero) /\ RatGeq(One, x)

\* C11: every match of a result of check_plagiarism has a similarity
\* between 0 and 1, whether the n-gram layer or the semantic layer made it.
C11_SimilarityInUnitInterval ==
    \A c \in Calls :
        Returned(c) =>
            \A k \in DOMAIN call[c].result.matches :
                InUnitInterval(call[c].result.matches[k].similarity)

\* The word n-grams of a chunk as the documentation gives them: the runs of
\* n consecutive words, letter case ignored.
WordNgrams(chunk, n) ==
    LET words == Split(Lower(chunk))
    IN  {SubSeq(words, k, k + n - 1) : k \in 1..(Len(words) - n + 1)}

\* |A n B| / |A u B| >= threshold, for A or B non-empty
JaccardAtLeast(A, B, threshold) ==
    Cardinality(A \cap B) * threshold[2]
        >= threshold[1] * Cardinality(A \cup B)

\* The pairs i < j of chunk indices (from 0) that are to be flagged.
FlaggedPairs(chunks, n, threshold) ==
    {pair \in (0..(Len(chunks) - 1)) \X (0..(Len(chunks) - 1)) :
        /\ pair[1] < pair[2]
        /\ WordNgrams(chunks[pair[1] + 1], n) # {}
        /\ WordNgrams(chunks[pair[2] + 1], n) # {}
        /\ JaccardAtLeast(WordNgrams(chunks[pair[1] + 1], n),
                          WordNgrams(chunks[pair[2] + 1], n), threshold)}

\* The match is the one of the pair: the Jaccard value, the first 200
\* characters of chunk i and a source naming chunk j.
IsMatchOfPair(match, chunks, n, pair) ==
    LET A == WordNgrams(chunks[pair[1] + 1], n)
        B == WordNgrams(chunks[pair[2] + 1], n)
    IN  /\ match.type = "near_duplicate"
        /\ match.similarity = Rat(Cardinality(A \cap B), Cardinality(A \cup B))
        /\ match.text = SubSeq(chunks[pair[1] + 1], 1,
                               Min(200, Len(chunks[pair[1] + 1])))
        /\ match.source = "Internal chunk " \o ToString(pair[2])
        /\ match.start_pos = pair[1] * 500

\* One match for each flagged pair and no other match.
OneMatchPerFlaggedPair ==
    LET flagged == FlaggedPairs(p_args.chunks, p_args.n, p_args.threshold)
    IN  /\ Len(p_out.matches) = Cardinality(flagged)
        /\ \A pair \in flagged :
              \E k \in DOMAIN p_out.matches :
                  IsMatchOfPair(p_out.matches[k], p_args.chunks, p_args.n, pair)

\* Two chunks that are equal and have n words or more.
TwoEqualChunks ==
    /\ Len(p_args.chunks) = 2
    /\ p_args.chunks[1] = p_args.chunks[2]
    /\ WordCount(p_args.chunks[1]) >= p_args.n

\* Two chunks without a common n-gram, or one of them shorter than n words.
TwoUnrelatedChunks ==
    /\ Len(p_args.chunks) = 2
    /\ \/ WordNgrams(p_args.chunks[1], p_args.n)
              \cap WordNgrams(p_args.chunks[2], p_args.n) = {}
       \/ WordCount(p_args.chunks[1]) < p_args.n
       \/ WordCount(p_args.chunks[2]) < p_args.n

NgramCorollaries ==
    /\ TwoEqualChunks =>
          Len(p_out.matches) = 1 /\ p_out.matches[1].similarity = One
    /\ TwoUnrelatedChunks => p_out.matches = <<>>

\* C12 as stated: _ngram_detection emits one near_duplicate match for each
\* pair i < j of chunks with non-empty n-gram sets and a Jaccard similarity
\* at or above the threshold, and no other match; so, for any threshold, two
\* equal chunks of n words or more give one match of similarity 1.0 and two
\* chunks that share no n-gram, or one of which is shorter than n words,
\* give none.
C12_AsStated ==
    p_pc = "ngrams" => OneMatchPerFlaggedPair /\ NgramCorollaries

\* C12: _ngram_detection emits one near_duplicate match for each pair i < j
\* of chunks with non-empty n-gram sets and a Jaccard similarity at or above
\* the threshold, and no other match; the match carries the Jaccard value,
\* the first 200 characters of chunk i and a source naming chunk j.  For a
\* threshold above 0 and at most 1, two equal chunks of n words or more give
\* one match of similarity 1.0 and two chunks that share no n-gram, or one of
\* which is shorter than n words, give none.
C12_OneMatchPerFlaggedPair ==
    p_pc = "ngrams" =>
        /\ OneMatchPerFlaggedPair
        /\ (p_args.threshold[1] > 0 /\ RatGeq(One, p_args.threshold)) =>
              NgramCorollaries

\* Three chunks of which some pairs are flagged and some are not, at a
\* threshold between 0 and 1, a flagged pair having a similarity below 1.
C12_Witness ==
    /\ p_pc = "ngrams"
    /\ Len(p_args.chunks) = 3
    /\ p_args.threshold = <<3, 5>>
    /\ Len(p_out.matches) \in 1..2
    /\ \E k \in DOMAIN p_out.matches :
          RatLess(p_out.matches[k].similarity, One)

\* C13: the n-gram Jaccard similarity of two chunks is the same in both
\* orders, so the pair is flagged in one order if and only if it is flagged
\* in the other.
C13_JaccardSymmetric ==
    p_pc = "ngrams_swapped" =>
        /\ Len(p_out.forward) = Len(p_out.backward)
        /\ p_out.forward # <<>> =>
              p_out.forward[1].similarity = p_out.backward[1].similarity
        /\ \A n \in NgramSizes :
              Jaccard(GetNgrams(p_args.chunks[1], n),
                      GetNgrams(p_args.chunks[2], n))
                  = Jaccard(GetNgrams(p_args.chunks[2], n),
                            GetNgrams(p_args.chunks[1], n))

\* Two chunks with n-gram sets of different sizes, flagged in both orders
\* with a similarity below 1.
C13_Witness ==
    /\ p_pc = "ngrams_swapped"
    /\ Cardinality(GetNgrams(p_args.chunks[1], p_args.n))
           # Cardinality(GetNgrams(p_args.chunks[2], p_args.n))
    /\ p_out.forward # <<>>
    /\ p_out.backward # <<>>
    /\ RatLess(p_out.forward[1].similarity, One)

\* The chunks joined with a space, in order.
JoinedChunks == JoinSpace(p_out.chunks)

\* Whitespace normalised: the words, one space between them.
NormalizeSpace(s) == JoinSpace(Split(s))

\* The characters that are neither whitespace nor a sentence terminator, in
\* order.
Letters(s) ==
    AtPositions(s, {k \in DOMAIN s : s[k] \notin Whitespace \cup SentenceEnd})

\* C14: the chunks of _chunk_text, concatenated in order and with whitespace
\* normalised, are the whitespace-normalised content of the text: nothing is
\* lost, added or reordered.
C14_ChunkRoundTrip ==
    p_pc = "chunked" => NormalizeSpace(JoinedChunks) = NormalizeSpace(p_text)

\* C15: no chunk of _chunk_text is empty or whitespace-only, the chunks are
\* in the order of the text (their letters, in order, are the letters of the
\* text), and a text that is empty or whitespace-only gives no chunk.
C15_ChunksNonBlankInOrder ==
    p_pc = "chunked" =>
        /\ \A k \in DOMAIN p_out.chunks : Strip(p_out.chunks[k]) # <<>>
        /\ Letters(JoinedChunks) = Letters(p_text)
        /\ Strip(p_text) = <<>> => p_out.chunks = <<>>

\* Two paragraphs, one chunk each, a sentence terminator dropped.
C15_Witness ==
    /\ p_pc = "chunked"
    /\ Len(Paragraphs(p_text)) = 2
    /\ Len(p_out.chunks) = 2
    /\ Len(p_text) > Len(JoinedChunks)
    /\ \E k \in DOMAIN p_text : p_text[k] \in SentenceEnd

\* C16: every chunk of _chunk_text but the last has min_chunk_size words at
\* least.
C16_ChunksReachMinimum ==
    p_pc = "chunked" =>
        \A k \in 1..(Len(p_out.chunks) - 1) :
            WordCount(p_out.chunks[k]) >= p_args.min_chunk_size

\* C17: in every result of check_plagiarism on a text with at least one
\* word, statistics.match_percentage is between 0 and 100, that is,
\* matched_words never exceeds total_words.
C17_MatchPercentageInRange ==
    \A c \in Calls :
        (Returned(c) /\ call[c].result.statistics.total_words > 0) =>
            /\ RatGeq(call[c].result.statistics.match_percentage, <<0, 1>>)
            /\ RatGeq(<<100, 1>>, call[c].result.statistics.match_percentage)
            /\ call[c].result.statistics.matched_words
                   <= call[c].result.statistics.total_words

\* The strings a pattern can match: one alternative of every part, in order.
RECURSIVE Language(_)
Language(pattern) ==
    IF pattern = <<>> THEN {<<>>}
    ELSE {x[1] \o x[2] : x \in Head(pattern) \X Language(Tail(pattern))}

EvidentiaryPhrases ==
    UNION {Language(claim_patterns[k]) : k \in DOMAIN claim_patterns}

Contains(s, phrase) ==
    \E p \in 0..(Len(s) - Len(phrase)) :
        SubSeq(s, p + 1, p + Len(phrase)) = phrase

HasEvidentiaryPhrase(sentence) ==
    \E phrase \in EvidentiaryPhrases : Contains(Lower(sentence), phrase)

Qualifies(sentence) ==
    WordCount(sentence) >= 5 /\ HasEvidentiaryPhrase(sentence)

\* The sentences of the text, stripped, in document order.
SentencesOf(text) ==
    LET pieces == ReSplit(text)
    IN  [k \in 1..Len(pieces) |-> Strip(pieces[k])]

QualifyingSentences == SelectSeq(SentencesOf(p_text), Qualifies)

\* C18: _identify_claims returns the first 10 (or all, if fewer) sentences
\* of the text, in document order, that have at least 5 words and contain an
\* evidentiary phrase in any letter case; a sentence with fewer than 5 words
\* or without such a phrase is never returned, and a sentence that matches
\* several patterns is returned once.
C18_FirstTenQualifying ==
    p_pc = "claims" =>
        /\ p_out.claims = Take(QualifyingSentences, 10)
        /\ \A k \in DOMAIN p_out.claims : Qualifies(p_out.claims[k])
        /\ Len(p_out.claims) <= Len(QualifyingSentences)

\* More than 10 sentences qualify and 10 are returned, one of them matching
\* two patterns; a sentence with a phrase but fewer than 5 words and a
\* sentence of 5 words without a phrase are left out.
C18_Witness ==
    /\ p_pc = "claims"
    /\ Len(QualifyingSentences) > 10
    /\ Len(p_out.claims) = 10
    /\ \E k \in DOMAIN p_out.claims :
          Cardinality(MatchingPatterns(p_out.claims[k])) >= 2
    /\ \E k \in DOMAIN SentencesOf(p_text) :
          /\ HasEvidentiaryPhrase(SentencesOf(p_text)[k])
          /\ WordCount(SentencesOf(p_text)[k]) < 5
    /\ \E k \in DOMAIN SentencesOf(p_text) :
          /\ ~HasEvidentiaryPhrase(SentencesOf(p_text)[k])
          /\ WordCount(SentencesOf(p_text)[k]) >= 5

HigherImpact ==
    RatLess(p_args.other_impact_factor, p_args.impact_factor)

\* C19 as stated: of two journals whose inputs to _calculate_composite_score
\* differ only in impact factor, the one with the higher impact factor has
\* the strictly greater composite score.
C19_AsStated ==
    (p_pc = "composite" /\ HigherImpact) =>
        RatLess(p_out.other_score, p_out.score)

\* C19: of two journals whose inputs to _calculate_composite_score differ
\* only in impact factor, the one with the higher impact factor never has the
\* smaller composite score; its score is strictly greater when the lower
\* impact factor is below 10, and the two scores are equal when both impact
\* factors are 10 or more.
C19_MonotoneInImpactFactor ==
    (p_pc = "composite" /\ HigherImpact) =>
        /\ RatGeq(p_out.score, p_out.other_score)
        /\ RatLess(p_args.other_impact_factor, <<10, 1>>) =>
              RatLess(p_out.other_score, p_out.score)
        /\ RatGeq(p_args.other_impact_factor, <<10, 1>>) =>
              p_out.score = p_out.other_score

\* Impact factors 50 and 1/2, all else equal: the score with 50 is greater
\* by 0.15 * (1 - 0.05).
C19_Witness ==
    /\ p_pc = "composite"
    /\ p_args.impact_factor = <<50, 1>>
    /\ p_args.other_impact_factor = <<1, 2>>
    /\ RatSub(p_out.score, p_out.other_score) = Rat(1425, 10000)

\* The inputs for which _calculate_composite_score is specified.
CompositeInputsInRange ==
    /\ InUnitInterval(p_args.semantic_score)
    /\ InUnitInterval(p_args.keyword_score)
    /\ RatGeq(p_args.impact_factor, Zero)
    /\ RatGeq(p_args.time_to_publish, Zero)
    /\ RatGeq(p_args.acceptance_rate, Zero)
    /\ RatGeq(<<100, 1>>, p_args.acceptance_rate)

\* C20 (the function): _calculate_composite_score returns a value between 0
\* and 1 for every input within the specified ranges.
CompositeScoreInRange ==
    (p_pc = "composite" /\ CompositeInputsInRange) =>
        InUnitInterval(p_out.score)

\* C20 (the results): every composite_score of a recommend_journals result
\* is between 0 and 1.
RecommendedScoresInRange ==
    (p_pc = "recommended" /\ "result" \in DOMAIN p_out) =>
        \A k \in DOMAIN p_out.result :
            InUnitInterval(p_out.result[k].composite_score)

\* C20: _calculate_composite_score returns a value in [0, 1] for every input
\* with the two scores in [0, 1], impact factor and time to publish not
\* negative and acceptance rate in [0, 100], and so every composite_score of
\* a recommend_journals result is in [0, 1].
C20_CompositeInUnitInterval ==
    CompositeScoreInRange /\ RecommendedScoresInRange

\* The journals that pass _apply_filters in the call of recommend_journals,
\* when the filters return.
PassingJournals ==
    ApplyFilters(p_args.database, p_args.preferences)

LongEnough(paper_abstract) ==
    paper_abstract # <<>> /\ WordCount(paper_abstract) >= MIN_ABSTRACT_WORDS

\* C21: a missing signal never makes scoring raise: for an abstract of at
\* least 10 words, when the filters return, recommend_journals returns a
\* result that holds a scored entry for every journal that passes the
\* filters, also for a journal whose impact factor or h-index is not
\* available.
C21_MissingSignalNeverRaises ==
    (/\ p_pc = "recommended"
     /\ LongEnough(p_text)
     /\ "filtered" \in DOMAIN PassingJournals) =>
        /\ "result" \in DOMAIN p_out
        /\ {p_out.result[k].id : k \in DOMAIN p_out.result}
              = JournalIds(PassingJournals.filtered)

\* C22 (the list): a returned list has at most 20 journals, is ordered by
\* non-increasing composite_score and holds only journals that pass
\* _apply_filters.
ReturnedListWellFormed ==
    (p_pc = "recommended" /\ "result" \in DOMAIN p_out) =>
        /\ Len(p_out.result) <= MAX_RECOMMENDATIONS
        /\ \A k \in 1..(Len(p_out.result) - 1) :
              RatGeq(p_out.result[k].composite_score,
                     p_out.result[k + 1].composite_score)
        /\ "filtered" \in DOMAIN PassingJournals
        /\ {p_out.result[k].id : k \in DOMAIN p_out.result}
              \subseteq JournalIds(PassingJournals.filtered)

\* C22 (the abstract): an empty abstract or one of fewer than 10 words
\* raises ValueError.
ShortAbstractRaises ==
    (p_pc = "recommended" /\ ~LongEnough(p_text)) =>
        p_out = [raised |-> "ValueError"]

\* C22 (the outcome): an abstract of at least 10 words gets a list.
LongAbstractReturns ==
    (p_pc = "recommended" /\ LongEnough(p_text)) => "result" \in DOMAIN p_out

\* C22: for an abstract of at least 10 words recommend_journals returns a
\* list of at most 20 journals ordered by non-increasing composite_score,
\* made only of journals that pass _apply_filters for the preferences; for
\* an empty abstract or one of fewer than 10 words it raises ValueError.
C22_RecommendContract ==
    LongAbstractReturns /\ ReturnedListWellFormed /\ ShortAbstractRaises

\* The position of a journal in the database.
PositionOf(database, journal) ==
    CHOOSE k \in DOMAIN database : database[k] = journal

\* The journal satisfies every active preference.
SatisfiesPreferences(j, preferences) ==
    LET Active(key) == key \in DOMAIN preferences
        required ==
            IF Active("required_indexing") THEN preferences.required_indexing
            ELSE {}
    IN  /\ (Active("open_access_only") /\ preferences.open_access_only) =>
              j.open_access
        /\ Active("max_apc") =>
              (~j.open_access \/ RatGeq(preferences.max_apc, j.apc_amount))
        /\ Active("min_impact_factor") =>
              /\ j.impact_factor # NoneNumber
              /\ RatGeq(j.impact_factor, preferences.min_impact_factor)
        /\ Active("max_time_to_publish") =>
              RatGeq(preferences.max_time_to_publish,
                     j.avg_time_to_publish_days)
        /\ "Scopus" \in required => j.scopus_indexed
        /\ "Web of Science" \in required => j.web_of_science_indexed
        /\ ~(Active("exclude_predatory") /\ ~preferences.exclude_predatory) =>
              ~j.is_predatory

\* C23 (the result): what _apply_filters returns is an order-preserving
\* sub-list of the database in which every journal satisfies every active
\* preference.
FilteredIsSatisfyingSubList ==
    (p_pc = "recommended" /\ LongEnough(p_text)
        /\ "filtered" \in DOMAIN PassingJournals) =>
        LET filtered == PassingJournals.filtered
            database == p_args.database
        IN  /\ \A k \in DOMAIN filtered :
                  /\ \E m \in DOMAIN database : database[m] = filtered[k]
                  /\ SatisfiesPreferences(filtered[k], p_args.preferences)
            /\ \A k \in 1..(Len(filtered) - 1) :
                  PositionOf(database, filtered[k])
                      < PositionOf(database, filtered[k + 1])

\* C23: in a call of recommend_journals, _apply_filters returns, without
\* raising for any journal of the database, an order-preserving sub-list of
\* the database in which every journal satisfies every active preference.
C23_FiltersReturnSatisfyingSubList ==
    /\ (p_pc = "recommended" /\ LongEnough(p_text)) =>
          "filtered" \in DOMAIN PassingJournals
    /\ FilteredIsSatisfyingSubList

\* The similarity of the k-th match, 0 when the dict has none.
SimilarityOf(matches, k) == Get(matches[k], "similarity", Zero)

\* The number of matches whose similarity is at least low and below high.
InTier(matches, low, high) ==
    Cardinality({k \in DOMAIN matches :
                    /\ RatGeq(SimilarityOf(matches, k), low)
                    /\ RatLess(SimilarityOf(matches, k), high)})

\* The penalty by tiers: every match counts in exactly one tier.
TierPenalty(matches) ==
    10 * Cardinality({k \in DOMAIN matches :
                         RatGeq(SimilarityOf(matches, k), <<9, 10>>)})
    + 5 * InTier(matches, <<4, 5>>, <<9, 10>>)
    + 2 * InTier(matches, <<7, 10>>, <<4, 5>>)

\* The sum of the word counts of the matches' text fields.
WordsOfMatches(matches) ==
    LET sum[k \in 0..Len(matches)] ==
            IF k = 0 THEN 0
            ELSE sum[k - 1] + WordCount(Get(matches[k], "text", <<>>))
    IN  sum[Len(matches)]

\* round(max(0, base - penalty), 2) in hundredths, with base =
\* 100 * (1 - matched_words / total_words) clamped to [0, 100], computed over
\* the common denominator total_words.
ScoreByFormula(text, matches) ==
    LET total_words == WordCount(text)
        base == Min(100 * total_words,
                    Max(0, 100 * (total_words - WordsOfMatches(matches))))
        final == Max(0, base - TierPenalty(matches) * total_words)
    IN  RoundHalfEven(100 * final, total_words)

\* C26: for a text with total_words > 0, _calculate_originality_score
\* returns round(max(0, base - penalty), 2), where base is
\* 100 * (1 - matched_words / total_words) clamped to [0, 100], matched_words
\* the sum of the word counts of the matches' texts, and penalty the sum
\* over the matches of 10 from similarity 0.9, 5 from 0.8, 2 from 0.7 and 0
\* below, boundaries included.
C26_ScoreByFormula ==
    (p_pc = "scored" /\ WordCount(p_text) > 0) =>
        p_out.score = ScoreByFormula(p_text, p_matches)

\* A score above 0 for matches on the three tier boundaries.
C26_Witness ==
    /\ p_pc = "scored"
    /\ WordCount(p_text) > 0
    /\ {SimilarityOf(p_matches, k) : k \in DOMAIN p_matches}
          = {<<9, 10>>, <<4, 5>>, <<7, 10>>}
    /\ TierPenalty(p_matches) = 17
    /\ p_out.score = 7362

\* The sum of the counts of a dict of counts.
RECURSIVE SumOfCounts(_)
SumOfCounts(counts) ==
    IF DOMAIN counts = {} THEN 0
    ELSE LET t == CHOOSE t \in DOMAIN counts : TRUE
         IN  counts[t]
             + SumOfCounts([u \in DOMAIN counts \ {t} |-> counts[u]])

\* C30: in every result of check_plagiarism total_matches is the number of
\* entries of matches, the counts of statistics.matches_by_type sum to
\* total_matches, and statistics.unique_sources is 0 without matches and
\* between 1 and total_matches otherwise.
C30_CountsConsistent ==
    \A c \in Calls :
        Returned(c) =>
            LET result == call[c].result
            IN  /\ result.total_matches = Len(result.matches)
                /\ SumOfCounts(result.statistics.matches_by_type)
                      = result.total_matches
                /\ IF result.total_matches = 0
                   THEN result.statistics.unique_sources = 0
                   ELSE result.statistics.unique_sources
                            \in 1..result.total_matches

\* A result with several matches, two of them of one type, from fewer
\* sources than matches and more than one.
C30_Witness ==
    \E c \in Calls :
        /\ Returned(c)
        /\ LET result == call[c].result
           IN  /\ result.statistics.unique_sources > 1
               /\ result.statistics.unique_sources < result.total_matches
               /\ \E t \in DOMAIN result.statistics.matches_by_type :
                     result.statistics.matches_by_type[t] > 1
               /\ Cardinality(DOMAIN result.statistics.matches_by_type) > 1

\* The candidates of the chunks examined so far whose cosine similarity is
\* at least the threshold, in the order they were examined.
AboveThreshold(c) ==
    SelectSeq(call[c].examined,
              LAMBDA e : RatGeq(e.similarity, SEMANTIC_THRESHOLD))

\* The match the claim describes for a candidate: the candidate's title,
\* url, year and at most 3 author names, the type by the 0.9 boundary.
DescribedMatch(m, e) ==
    /\ m.similarity = e.similarity
    /\ m.source = Get(e.paper, "title", "Unknown")
    /\ m.source_url = Get(e.paper, "url", None)
    /\ m.source_year = Get(e.paper, "year", None)
    /\ m.start_pos = e.chunk * POS_STRIDE
    /\ Len(m.source_authors) <= MAX_AUTHORS
    /\ IsPrefix(m.source_authors,
                [k \in DOMAIN Get(e.paper, "authors", ListOf(<<>>)).items |->
                    Get(Get(e.paper, "authors", ListOf(<<>>)).items[k],
                        "name", None)])
    /\ m.type = (IF RatGeq(e.similarity, <<9, 10>>) THEN "high_similarity"
                 ELSE "paraphrase")

\* C27: in _semantic_detection a match is emitted for a candidate of an
\* examined chunk if and only if its cosine similarity is at least the
\* threshold: the matches of Layer 3 are, one for one and in order, the
\* candidates at or above the threshold, each typed paraphrase below 0.9 and
\* high_similarity from 0.9 and carrying the candidate's title, url, year
\* and at most 3 author names.
C27_MatchIffAboveThreshold ==
    \A c \in Calls :
        call[c].pc \in {"search", "done"} =>
            /\ Len(call[c].matches) = Len(AboveThreshold(c))
            /\ \A k \in DOMAIN call[c].matches :
                  DescribedMatch(call[c].matches[k], AboveThreshold(c)[k])

\* C27 (what is emitted): every match of Layer 3 belongs to a candidate at
\* or above the threshold and is as described.
EmittedMatchesDescribed ==
    \A c \in Calls :
        call[c].pc \in {"search", "done"} =>
            /\ Len(call[c].matches) <= Len(AboveThreshold(c))
            /\ \E I \in SUBSET DOMAIN AboveThreshold(c) :
                  /\ Cardinality(I) = Len(call[c].matches)
                  /\ \A k \in DOMAIN call[c].matches :
                        DescribedMatch(call[c].matches[k],
                                       AtPositions(AboveThreshold(c), I)[k])

\* The entries of the log of call c for one kind of provider call.
LogOf(c, op) == SelectSeq(call[c].log, LAMBDA e : e.op = op)

\* The chunk indices of the entries are increasing and below the limit.
InIndexOrder(entries) ==
    /\ \A k \in DOMAIN entries : entries[k].arg \in 0..(MAX_CHUNKS_TO_CHECK - 1)
    /\ \A k \in 1..(Len(entries) - 1) : entries[k].arg < entries[k + 1].arg

\* The match has a type that only Layer 3 gives.
IsSemantic(m) == m.type \in {"paraphrase", "high_similarity"}

\* The Layer 3 match comes from one of the first 10 chunks of the call.
FromExaminedPrefix(c, m) ==
    \E i \in 0..(MAX_CHUNKS_TO_CHECK - 1) :
        /\ i < Len(call[c].chunks)
        /\ m.start_pos = i * POS_STRIDE
        /\ m.text = Take(call[c].chunks[i + 1], SNIPPET_LEN)

\* C28: Layer 3 examines only the first 10 chunks: a check_plagiarism run in
\* which Layer 3 runs issues exactly one batched chunk-embedding call, before
\* every other call and for at most 10 chunks, at most 10 search calls and at
\* most 10 candidate-embedding calls, in chunk-index order, and no Layer 3
\* match refers to a chunk of index 10 or more, however many chunks the text
\* has.
C28_OnlyFirstTenChunks ==
    \A c \in Calls :
        call[c].log # <<>> =>
            /\ Len(LogOf(c, "embed_chunks")) = 1
            /\ call[c].log[1] =
                  EmbedChunks(Min(Len(call[c].chunks), MAX_CHUNKS_TO_CHECK))
            /\ Len(LogOf(c, "search")) <= MAX_CHUNKS_TO_CHECK
            /\ Len(LogOf(c, "embed_candidates")) <= MAX_CHUNKS_TO_CHECK
            /\ InIndexOrder(LogOf(c, "search"))
            /\ InIndexOrder(LogOf(c, "embed_candidates"))
            /\ \A k \in DOMAIN LogOf(c, "search") :
                  LogOf(c, "search")[k] = Search(k - 1)
            /\ \A k \in DOMAIN call[c].log :
                  call[c].log[k].op = "embed_candidates" =>
                      call[c].log[k - 1] = Search(call[c].log[k].arg)
            /\ \A k \in DOMAIN call[c].matches :
                  FromExaminedPrefix(c, call[c].matches[k])
            /\ Returned(c) =>
                  \A k \in DOMAIN call[c].result.matches :
                      IsSemantic(call[c].result.matches[k]) =>
                          FromExaminedPrefix(c, call[c].result.matches[k])

\* A returned call on a text of more than 10 chunks with 10 searches, 10
\* candidate embeddings and a Layer 3 match for the chunk of index 9.
C28_Witness ==
    \E c \in Calls :
        /\ Returned(c)
        /\ Len(call[c].chunks) > MAX_CHUNKS_TO_CHECK
        /\ Len(LogOf(c, "search")) = MAX_CHUNKS_TO_CHECK
        /\ Len(LogOf(c, "embed_candidates")) = MAX_CHUNKS_TO_CHECK
        /\ \E k \in DOMAIN call[c].result.matches :
              /\ IsSemantic(call[c].result.matches[k])
              /\ call[c].result.matches[k].start_pos
                    = (MAX_CHUNKS_TO_CHECK - 1) * POS_STRIDE

\* Whether building the match of the k-th examined candidate is reached and
\* returns: the candidate is at or above the threshold, its authors are a
\* list, and no earlier candidate of the same chunk raised.
Emits(examined, k) ==
    /\ RatGeq(examined[k].similarity, SEMANTIC_THRESHOLD)
    /\ ~AuthorsRaise(examined[k].paper)
    /\ \A j \in 1..(k - 1) :
          ~(/\ examined[j].chunk = examined[k].chunk
            /\ RatGeq(examined[j].similarity, SEMANTIC_THRESHOLD)
            /\ AuthorsRaise(examined[j].paper))

\* The result of a call run alone on the same text and language with the
\* same answers of the providers: the three layers over the call's own
\* chunks and the candidates it was given.
AloneResult(rec) ==
    LET chunks == ChunkText(rec.text, MIN_CHUNK_SIZE)
        emitting == {k \in DOMAIN rec.examined : Emits(rec.examined, k)}
        answered == AtPositions(rec.examined, emitting)
        semantic_matches ==
            [k \in DOMAIN answered |->
                SemanticMatch(chunks[answered[k].chunk + 1], answered[k].chunk,
                              answered[k].paper, answered[k].similarity)]
    IN  BuildResult(rec.text, rec.language,
                    FingerprintDetection(chunks)
                    \o NgramDetection(chunks, NGRAM_N, NGRAM_THRESHOLD)
                    \o semantic_matches)

\* Every match of the result is a snippet of a chunk of the call's own text.
OwnMatchesOnly(rec) ==
    \A k \in DOMAIN rec.result.matches :
        \E i \in DOMAIN rec.chunks :
            IsPrefix(Take(rec.result.matches[k].text, KEY_PREFIX_LEN),
                     rec.chunks[i])

\* C29 (the results): a call returns the result it would return if run
\* alone, and no match of another call is in it.
ConcurrentResultsAsAlone ==
    \A c \in Calls :
        Returned(c) =>
            /\ call[c].result = AloneResult(call[c])
            /\ OwnMatchesOnly(call[c])

\* C29 (the steps): a step of one call leaves every other call and the
\* service instance as they are.
StepsAreLocal ==
    /\ cohere_client' = cohere_client
    /\ \A c, d \in Calls :
          (c # d /\ call'[c] # call[c]) => call'[d] = call[d]

\* C29: concurrent check_plagiarism calls on one service instance,
\* interleaved at the awaited search calls of Layer 3, do not interfere: no
\* step of a call changes the service or another call, each call returns
\* the result it would return if run alone, and no match of one call
\* appears in the result of another.
C29_ConcurrentCallsIndependent ==
    []ConcurrentResultsAsAlone /\ [][StepsAreLocal]_vars

\* Two calls on different texts, each resumed while the other was suspended:
\* one has returned Layer 3 matches, the other holds Layer 3 matches and is
\* suspended.
C29_Witness ==
    \E c, d \in Calls :
        /\ Returned(c)
        /\ Suspended(d)
        /\ call[c].text # call[d].text
        /\ call[c].overlapped /\ call[d].overlapped
        /\ \E k \in DOMAIN call[c].result.matches :
              IsSemantic(call[c].result.matches[k])
        /\ call[d].matches # <<>>

\* The papers of the list that carry the label.
PapersCarrying(papers, label) ==
    {k \in DOMAIN papers :
        \E j \in DOMAIN GetPaperTopics(papers[k]) :
            GetPaperTopics(papers[k])[j] = label}

\* C24 (the score): every included topic has a score between 0 and 1.
TrendScoresInUnitInterval ==
    p_pc = "trending" =>
        \A k \in DOMAIN p_out.scored_topics :
            InUnitInterval(p_out.scored_topics[k].score)

\* C24: _calculate_trend_scores includes a topic only if at least 3 papers
\* carry it, and the score of an included topic is between 0 and 1.
C24_AtLeastThreePapers ==
    p_pc = "trending" =>
        \A k \in DOMAIN p_out.scored_topics :
            /\ Cardinality(PapersCarrying(p_out.all_papers,
                                          p_out.scored_topics[k].topic))
                  >= MIN_TOPIC_PAPERS
            /\ InUnitInterval(p_out.scored_topics[k].score)

\* The labels of the fetched papers in the order _extract_topics meets them.
LabelsMet(papers) ==
    LET met[k \in 0..Len(papers)] ==
            IF k = 0 THEN <<>> ELSE met[k - 1] \o GetPaperTopics(papers[k])
    IN  met[Len(papers)]

\* The position at which the label is first met, 0 if it never is.
FirstMet(papers, label) ==
    LET at == {k \in DOMAIN LabelsMet(papers) : LabelsMet(papers)[k] = label}
    IN  IF at = {} THEN 0 ELSE CHOOSE k \in at : \A j \in at : k <= j

\* C25 (the scores): the returned topics are in order of non-increasing
\* relevance_score.
TopicsByDescendingScore ==
    p_pc = "trending" =>
        \A k \in 1..(Len(p_out.response.topics) - 1) :
            RatGeq(p_out.response.topics[k].relevance_score,
                   p_out.response.topics[k + 1].relevance_score)

\* C25: the topics returned by get_trending_topics are sorted by descending
\* final score, and two topics of equal final score appear in the order in
\* which their labels were first met in the fetched papers.
C25_SortedTiesInEncounterOrder ==
    /\ TopicsByDescendingScore
    /\ (p_pc = "trending" /\ p_out.scored_topics # <<>>) =>
          \A k \in 1..(Len(p_out.response.topics) - 1) :
              (p_out.response.topics[k].relevance_score
                  = p_out.response.topics[k + 1].relevance_score) =>
                  FirstMet(p_out.all_papers,
                           p_out.response.topics[k].topic_name)
                      < FirstMet(p_out.all_papers,
                                 p_out.response.topics[k + 1].topic_name)

====
